---- MODULE Spec2Model ----
(***************************************************************************)
(* Model of the javascript-antiplagiarism router protocol:                 *)
(*   - the build script (analyzeDependencies, computeKeyForRouterFile,     *)
(*     recompileRouterFiles and the embedded artifacts),                   *)
(*   - the browser runtime (routerForwardCall, parseAndCall),              *)
(*   - the tamper verifier (waitForGlobalHashes, verifyHashes),            *)
(*   - the message listener that fills window.globalHashes.                *)
(*                                                                         *)
(* A JavaScript string is a sequence of symbols.  A symbol is a TLA+       *)
(* string standing for one character or for one indivisible word (".js",  *)
(* "null", a function name); words never occur split, so that endsWith,    *)
(* split and === on the sequences agree with the JavaScript operations on  *)
(* the strings they stand for.                                             *)
(***************************************************************************)
EXTENDS Integers, Sequences, FiniteSets, TLC

VARIABLES
    project,        \* the project folder the build ran on (source files)
    embedded,       \* the constants embedded in the shipped runtime file
    buildKeys,      \* encryptionKeys of the build (private to the build)
    globalHashes,   \* window.globalHashes, the live hash table
    registry,       \* names of the functions registered on window
    invocations,    \* the routerForwardCall calls made so far
    dispatched,     \* log of the invocations of registered functions
    thrown,         \* exceptions that escaped to the caller of a handler
    now,            \* Date.now() in ms since the page was loaded
    verifier,       \* the Tamper Verifier's start-up chain
    overlays,       \* number of times showTamperOverlay ran
    proc            \* the procedure that is executed step by step: its
                    \* position, call stack and local data

vars == <<project, embedded, buildKeys, globalHashes, registry, invocations,
          dispatched, thrown, now, verifier, overlays, proc>>

(***************************************************************************)
(* Strings                                                                 *)
(***************************************************************************)

\* String.prototype.endsWith
EndsWith(s, t) ==
    /\ Len(t) <= Len(s)
    /\ SubSeq(s, Len(s) - Len(t) + 1, Len(s)) = t

\* index of the last symbol of s that is in seps, 0 when there is none
LastIndexIn(s, seps) ==
    LET hits == {i \in 1..Len(s) : s[i] \in seps}
    IN  IF hits = {} THEN 0 ELSE CHOOSE i \in hits : \A j \in hits : j <= i

\* s.split(<one of seps>).pop(): the text after the last separator
SplitPop(s, seps) == SubSeq(s, LastIndexIn(s, seps) + 1, Len(s))

\* index of the first symbol of s equal to sep, 0 when there is none
FirstIndexOf(s, sep) ==
    LET hits == {i \in 1..Len(s) : s[i] = sep}
    IN  IF hits = {} THEN 0 ELSE CHOOSE i \in hits : \A j \in hits : i <= j

\* String.prototype.split with a one-symbol separator: always at least one field
RECURSIVE Split(_, _)
Split(s, sep) ==
    LET k == FirstIndexOf(s, sep)
    IN  IF k = 0 THEN <<s>>
        ELSE <<SubSeq(s, 1, k - 1)>> \o Split(SubSeq(s, k + 1, Len(s)), sep)

\* the "a" + "b" + ... of a sequence of strings with a one-symbol separator
RECURSIVE Join(_, _)
Join(fields, sep) ==
    IF Len(fields) = 0 THEN <<>>
    ELSE IF Len(fields) = 1 THEN fields[1]
    ELSE fields[1] \o <<sep>> \o Join(Tail(fields), sep)

JsExt == <<".js">>

(***************************************************************************)
(* Bytes, hex strings, XOR                                                 *)
(***************************************************************************)

KeyBytes == 32
ByteRange == 256

HexDigits == <<"0", "1", "2", "3", "4", "5", "6", "7",
               "8", "9", "a", "b", "c", "d", "e", "f">>

\* value of one hex digit, -1 for a symbol that is no hex digit
HexVal(c) ==
    IF \E i \in 1..16 : HexDigits[i] = c
    THEN (CHOOSE i \in 1..16 : HexDigits[i] = c) - 1
    ELSE -1

\* parseInt(hexString.substr(i, 2), 16) stored into a Uint8Array cell:
\* NaN (no leading hex digit) is stored as 0, a leading digit alone counts
ParseHexPair(c1, c2) ==
    IF HexVal(c1) < 0 THEN 0
    ELSE IF HexVal(c2) < 0 THEN HexVal(c1)
    ELSE (16 * HexVal(c1) + HexVal(c2)) % ByteRange

\* hexStringToUint8Array: [ok |-> FALSE] is the throw "Invalid hexString"
hexStringToUint8Array(hexString) ==
    IF Len(hexString) % 2 # 0
    THEN [ok |-> FALSE, val |-> <<>>]
    ELSE [ok |-> TRUE,
          val |-> [i \in 1..(Len(hexString) \div 2) |->
                      ParseHexPair(hexString[2 * i - 1], hexString[2 * i])]]

\* a combination of two bytes in which the operands do not commute
ShiftAddByte(a, b) == (2 * a + b) % ByteRange

\* a ^ b on two bytes
RECURSIVE XorByte(_, _)
XorByte(a, b) ==
    IF a = 0 THEN b
    ELSE IF b = 0 THEN a
    ELSE (((a % 2) + (b % 2)) % 2) + 2 * XorByte(a \div 2, b \div 2)

\* xorBuffers: [ok |-> FALSE] is the throw "Buffers must be of equal length"
xorBuffers(a, b) ==
    IF Len(a) # Len(b)
    THEN [ok |-> FALSE, val |-> <<>>]
    ELSE [ok |-> TRUE, val |-> [i \in 1..Len(a) |-> XorByte(a[i], b[i])]]

\* new Uint8Array(32)
ZeroKey == [i \in 1..KeyBytes |-> 0]

\* uint8ArrayToHexString
uint8ArrayToHexString(arr) ==
    [i \in 1..(2 * Len(arr)) |->
        IF i % 2 = 1 THEN HexDigits[(arr[(i + 1) \div 2] \div 16) + 1]
        ELSE HexDigits[(arr[i \div 2] % 16) + 1]]

(***************************************************************************)
(* SHA-256.  A file's text is identified by a number (0: the empty text,   *)
(* equal numbers: equal texts).  The digest is an injective map to 64 hex  *)
(* digits; the digests are linearly independent under XOR, as the digests  *)
(* of distinct texts are for every practical purpose.                      *)
(***************************************************************************)

\* crypto.createHash('sha256').update(text).digest('hex') / computeSHA256
Sha256(text) ==
    [i \in 1..(2 * KeyBytes) |->
        IF (i + 1) \div 2 = (text % KeyBytes) + 1
        THEN (IF i % 2 = 1 THEN "a" ELSE "5")
        ELSE (IF i % 2 = 1 THEN "5" ELSE "a")]

(***************************************************************************)
(* The project folder.                                                     *)
(*   sep    the platform's path separator ("\\" on Windows, "/" on POSIX)  *)
(*   files  getJsFiles(folderPath) without the recompiled folder, in the   *)
(*          order readdirSync lists them (absolute paths)                  *)
(*   src    per file: text (the number of its text), marker (the text      *)
(*          contains window["routerForwardCall"]), declared and called     *)
(*          (the names the two regular expressions find, in order), sites  *)
(*          (the routerForwardCall call sites with two literal arguments:  *)
(*          desc, callee and the trailing argument expressions)            *)
(***************************************************************************)

NoFile == <<>>

\* the separators path.basename honours on the platform
PlatformSeps(sep) == IF sep = "\\" THEN {"\\", "/"} ELSE {"/"}

\* path.basename(file)
PathBasename(P, file) == SplitPop(file, PlatformSeps(P.sep))

\* path.basename(file, '.js')
PathBasenameNoExt(P, file) ==
    LET b == PathBasename(P, file)
    IN  IF EndsWith(b, JsExt) /\ Len(b) > Len(JsExt)
        THEN SubSeq(b, 1, Len(b) - Len(JsExt))
        ELSE b

SeqToSet(s) == {s[i] : i \in 1..Len(s)}

\* the elements of s in order of first occurrence (keys of a JS object or Set)
RECURSIVE Dedup(_)
Dedup(s) ==
    IF s = <<>> THEN <<>>
    ELSE LET r == Dedup(SubSeq(s, 1, Len(s) - 1))
             x == s[Len(s)]
         IN  IF x \in SeqToSet(r) THEN r ELSE Append(r, x)

\* fileBaseIndex[base]: the last file with that base name wins
fileBaseIndex(P, base) ==
    LET hits == {i \in 1..Len(P.files) : PathBasenameNoExt(P, P.files[i]) = base}
    IN  IF hits = {} THEN NoFile
        ELSE P.files[CHOOSE i \in hits : \A j \in hits : j <= i]

\* globalFunctionIndex[fnName]: the first file declaring the name wins
globalFunctionIndex(P, fnName) ==
    LET hits == {i \in 1..Len(P.files) :
                    fnName \in SeqToSet(P.src[P.files[i]].declared)}
    IN  IF hits = {} THEN NoFile
        ELSE P.files[CHOOSE i \in hits : \A j \in hits : i <= j]

\* the capture ([^-"']+) of processFile's routerCallRegex: the descriptor up
\* to its first dash
RouterCallBase(desc) ==
    IF FirstIndexOf(desc, "-") = 0 THEN desc
    ELSE SubSeq(desc, 1, FirstIndexOf(desc, "-") - 1)

\* the files one call of processFile(file, visited) recurses into, in order:
\* first the router call sites, then the plain calls not declared locally
DependentFiles(P, file, visited) ==
    LET src    == P.src[file]
        case1  == [i \in 1..Len(src.sites) |->
                      IF RouterCallBase(src.sites[i].desc) = <<>> THEN NoFile
                      ELSE fileBaseIndex(P, RouterCallBase(src.sites[i].desc))]
        case2  == [i \in 1..Len(src.called) |->
                      IF src.called[i] \in SeqToSet(src.declared) THEN NoFile
                      ELSE globalFunctionIndex(P, src.called[i])]
        all    == Dedup(case1 \o case2)
    IN  SelectSeq(all, LAMBDA d : d # NoFile /\ d # file /\ d \notin visited)

\* processFile(file, visited) for a file not in visited: the DependencyNode.
\* dependencies is the object's entries in insertion order.
RECURSIVE processFile(_, _, _)
processFile(P, file, visited) ==
    LET v    == visited \cup {file}
        deps == DependentFiles(P, file, v)
    IN  [routerDependant |-> P.src[file].marker,
         dependencies    |-> [i \in 1..Len(deps) |->
                                 [file |-> deps[i],
                                  node |-> processFile(P, deps[i], v)]]]

\* analyzeDependencies(folderPath).dependencyTree: one root per file
analyzeDependencies(P) ==
    [i \in 1..Len(P.files) |->
        [file |-> P.files[i], node |-> processFile(P, P.files[i], {})]]

(***************************************************************************)
(* Key Deriver                                                             *)
(***************************************************************************)

\* collectHashesFromDependencies(dependencies, visited, fileContents): the
\* entries of collected in insertion order and the (shared, mutated) visited
RECURSIVE collectHashesFromDependencies(_, _, _)
collectHashesFromDependencies(dependencies, visited, P) ==
    IF dependencies = <<>> THEN [collected |-> <<>>, visited |-> visited]
    ELSE
      LET d == Head(dependencies)
      IN  IF d.file \in visited
          THEN collectHashesFromDependencies(Tail(dependencies), visited, P)
          ELSE
            LET own  == IF ~d.node.routerDependant /\ P.src[d.file].text # 0
                        THEN <<[file |-> d.file,
                                hash |-> hexStringToUint8Array(
                                            Sha256(P.src[d.file].text)).val]>>
                        ELSE <<>>
                sub  == collectHashesFromDependencies(
                            d.node.dependencies, visited \cup {d.file}, P)
                rest == collectHashesFromDependencies(
                            Tail(dependencies), sub.visited, P)
            IN  [collected |-> own \o sub.collected \o rest.collected,
                 visited   |-> rest.visited]

\* the loop xorResult = xorBuffers(xorResult, h) over a list of byte arrays
RECURSIVE XorFold(_, _)
XorFold(acc, hashes) ==
    IF hashes = <<>> THEN acc
    ELSE XorFold(xorBuffers(acc, Head(hashes)).val, Tail(hashes))

\* computeKeyForRouterFile(routerFile, routerNode, fileContents), with the
\* random mask drawn as mask (32 bytes)
computeKeyForRouterFile(routerFile, routerNode, P, mask) ==
    LET got  == collectHashesFromDependencies(routerNode.dependencies, {}, P)
        xorResult == XorFold(ZeroKey, [i \in 1..Len(got.collected) |->
                                          got.collected[i].hash])
    IN  [routerFile      |-> routerFile,
         collectedFiles  |-> [i \in 1..Len(got.collected) |-> got.collected[i].file],
         xorOfHashes     |-> uint8ArrayToHexString(xorResult),
         mask            |-> uint8ArrayToHexString(mask),
         key             |-> uint8ArrayToHexString(xorBuffers(xorResult, mask).val)]

(***************************************************************************)
(* Call Encryptor and the embedded artifacts.                              *)
(*                                                                         *)
(* AES-256-CBC is modelled symbolically: the base64 ciphertext of pt under *)
(* key and iv is the record [kind |-> "ct", key, iv, pt]; two ciphertexts  *)
(* are the same string exactly when key, iv and pt agree.  A first         *)
(* argument that is no ciphertext of the build is [kind |-> "text"].       *)
(* Random draws (masks, IVs) are taken from the project's rand field.      *)
(***************************************************************************)

\* the base64 ciphertext encryptText returns for text under keyHex and iv
Ciphertext(text, keyHex, iv) ==
    [kind |-> "ct", key |-> keyHex, iv |-> iv, pt |-> text]

\* a first argument that is plain text
PlainArg(text) == [kind |-> "text", key |-> <<>>, iv |-> 0, pt |-> text]

\* randomBytesUint8Array(32) for the n-th key computed by the build
RandomMask(P, n) ==
    [i \in 1..KeyBytes |-> (P.rand * 16 + n * 3 + i) % ByteRange]

\* an IV that is the same for every encryptText of a file
FixedIv(P, fileIndex, n) == P.rand * 100 + fileIndex * 10

\* randomBytesUint8Array(16) of the n-th encryptText of a file: the number
\* of the IV drawn (crypto.randomFillSync: two draws of 16 bytes are taken
\* to differ)
RandomIv(P, fileIndex, n) == P.rand * 100 + fileIndex * 10 + n

\* index of file in P.files (0: absent)
FileIndex(P, file) ==
    LET hits == {i \in 1..Len(P.files) : P.files[i] = file}
    IN  IF hits = {} THEN 0 ELSE CHOOSE i \in hits : TRUE

\* the roots the build's main loop computes a key for
RouterDependentRoots(tree) == SelectSeq(tree, LAMBDA e : e.node.routerDependant)

\* the base names of the roots, as the keys of encryptionKeys in key order
RootBaseNames(P, roots) ==
    Dedup([k \in 1..Len(roots) |-> PathBasename(P, roots[k].file)])

\* the last root with the base name: its assignment is the one that stays
LastRootNamed(P, roots, name) ==
    CHOOSE k \in 1..Len(roots) :
        /\ PathBasename(P, roots[k].file) = name
        /\ \A j \in 1..Len(roots) :
              PathBasename(P, roots[j].file) = name => j <= k

\* encryptionKeys[baseName] = computeKeyForRouterFile(file, node, ...) for
\* the k-th router-dependent root
KeyOfRoot(P, roots, k) ==
    computeKeyForRouterFile(roots[k].file, roots[k].node, P, RandomMask(P, k))

EncryptionKeysOfRoots(P, roots, names) ==
    [n \in 1..Len(names) |->
        [baseName |-> names[n],
         keys     |-> KeyOfRoot(P, roots, LastRootNamed(P, roots, names[n]))]]

EncryptionKeysOfTree(P, roots) ==
    EncryptionKeysOfRoots(P, roots, RootBaseNames(P, roots))

\* the build's main loop over dependencyTree: encryptionKeys[baseName] for
\* every router-dependent root, as entries in key order; a later root with
\* the same base name overwrites the value and keeps the entry's position
encryptionKeys(P) ==
    EncryptionKeysOfTree(P, RouterDependentRoots(analyzeDependencies(P)))

\* Object.keys(encryptionKeys): the base names recompileRouterFiles loops over
EncryptionKeyNames(P) ==
    RootBaseNames(P, RouterDependentRoots(analyzeDependencies(P)))

\* Object.keys(fileContents).find(f => path.basename(f) === baseName)
FindRouterFile(P, baseName) ==
    LET hits == {i \in 1..Len(P.files) : PathBasename(P, P.files[i]) = baseName}
    IN  P.files[CHOOSE i \in hits : \A j \in hits : i <= j]

\* recompileRouterFiles for one entry of encryptionKeys: encryptedCalls, one
\* per call site in source order
encryptedCalls(P, entry) ==
    LET routerFile == FindRouterFile(P, entry.baseName)
        sites      == P.src[routerFile].sites
    IN  [n \in 1..Len(sites) |->
            [original   |-> sites[n].desc,
             iv         |-> RandomIv(P, FileIndex(P, routerFile), n),
             ciphertext |-> Ciphertext(sites[n].desc, entry.keys.key,
                                RandomIv(P, FileIndex(P, routerFile), n))]]

\* mapping[file][call.ciphertext] = call.iv over the calls in order: the
\* entries of a JS object (an existing key keeps its place, takes the value)
RECURSIVE ObjectEntries(_)
ObjectEntries(calls) ==
    IF calls = <<>> THEN <<>>
    ELSE LET r == ObjectEntries(SubSeq(calls, 1, Len(calls) - 1))
             c == calls[Len(calls)]
             e == [ct |-> c.ciphertext, iv |-> c.iv]
         IN  IF \E i \in 1..Len(r) : r[i].ct = e.ct
             THEN [i \in 1..Len(r) |-> IF r[i].ct = e.ct THEN e ELSE r[i]]
             ELSE Append(r, e)

\* the mapping object serialised into IVS_MAPPING_BASE64
ivsMapping(P) ==
    LET keys == encryptionKeys(P)
    IN  [n \in 1..Len(keys) |->
            [fileKey |-> keys[n].baseName,
             mask    |-> keys[n].keys.mask,
             entries |-> ObjectEntries(encryptedCalls(P, keys[n]))]]

\* the text a file has in the recompiled folder: recompileRouterFiles writes
\* the rewritten text of the file it finds for each base name (a new text as
\* soon as one call site was replaced: the texts of a project are numbered
\* below 8, the rewritten ones from 8); every other file is copied verbatim
IsRewritten(P, file) ==
    /\ P.src[file].sites # <<>>
    /\ \E baseName \in SeqToSet(EncryptionKeyNames(P)) :
          FindRouterFile(P, baseName) = file

ShippedText(P, file) ==
    IF IsRewritten(P, file) THEN P.src[file].text + 8
    ELSE P.src[file].text

\* path.join(recompiledFolder, path.relative(folderPath, file))
RecompiledPath(P, file) == <<P.sep, "recompiled">> \o file

RouterJsName == <<"Router", ".js">>

\* computeHashesForJsFiles(): { fullPath: hash } over the recompiled folder,
\* without the files named Router.js
computeHashesForJsFiles(P) ==
    LET kept == SelectSeq(P.files,
                    LAMBDA f : PathBasename(P, f) # RouterJsName)
    IN  [i \in 1..Len(kept) |->
            [path |-> RecompiledPath(P, kept[i]),
             hash |-> Sha256(ShippedText(P, kept[i]))]]

\* the three constants the build embeds into Router.js
Artifacts(P) ==
    [tree        |-> analyzeDependencies(P),
     ivs         |-> ivsMapping(P),
     precomputed |-> computeHashesForJsFiles(P)]

(***************************************************************************)
(* Router Runtime: routerForwardCall                                       *)
(***************************************************************************)

\* lines 128-132: append ".js" unless the callee ends with it
FileKeyOf(callee) == IF EndsWith(callee, JsExt) THEN callee ELSE callee \o JsExt

\* ivsMapping[fileKey]: index of the entry, 0 for undefined
MappingIndex(E, fileKey) ==
    LET hits == {n \in 1..Len(E.ivs) : E.ivs[n].fileKey = fileKey}
    IN  IF hits = {} THEN 0 ELSE CHOOSE n \in hits : TRUE

\* window.globalHashes[fileName]: <<>> stands for undefined (both falsy)
LiveHash(live, fileName) ==
    IF fileName \in DOMAIN live THEN live[fileName] ELSE <<>>

\* a lookup that finds the root for the first call of a page only
SelectedOnce(E, fileKey) ==
    LET hits == {i \in 1..Len(E.tree) : EndsWith(E.tree[i].file, fileKey)}
    IN  IF hits = {} \/ invocations # <<>> THEN 0
        ELSE CHOOSE i \in hits : \A j \in hits : i <= j

\* index of the first root f of the tree with f.endsWith(fileKey), 0 if none
SelectedRoot(E, fileKey) ==
    LET hits == {i \in 1..Len(E.tree) : EndsWith(E.tree[i].file, fileKey)}
    IN  IF hits = {} THEN 0 ELSE CHOOSE i \in hits : \A j \in hits : i <= j

\* collectDeps(node) of lines 162-170, on the entries of node.dependencies:
\* branchFiles and the visited set shared by the whole walk
RECURSIVE collectDeps(_, _, _)
collectDeps(dependencies, branchFiles, visited) ==
    IF dependencies = <<>>
    THEN [branchFiles |-> branchFiles, visited |-> visited]
    ELSE
      LET d    == Head(dependencies)
          take == ~d.node.routerDependant /\ d.file \notin visited
          b1   == IF take THEN Append(branchFiles, d.file) ELSE branchFiles
          v1   == IF take THEN visited \cup {d.file} ELSE visited
          sub  == collectDeps(d.node.dependencies, b1, v1)
      IN  collectDeps(Tail(dependencies), sub.branchFiles, sub.visited)

\* lines 154-173.  A selected root that is not router-dependent is pushed and
\* then visited.add(dep) reads the undeclared name dep: a ReferenceError.
BranchOf(E, fileKey) ==
    LET r == SelectedRoot(E, fileKey)
    IN  IF r = 0 THEN [threw |-> FALSE, branchFiles |-> <<>>]
        ELSE IF ~E.tree[r].node.routerDependant
        THEN [threw |-> TRUE, branchFiles |-> <<E.tree[r].file>>]
        ELSE [threw |-> FALSE,
              branchFiles |-> collectDeps(E.tree[r].node.dependencies,
                                          <<>>, {}).branchFiles]

\* the bare file name routerForwardCall looks a branch file up by (line 183)
RouterFileName(file) == SplitPop(file, {"\\", "/"})

\* lines 180-188: the forEach that folds the live hashes; a hash that is not
\* an even number of hex digits or not 32 bytes makes a helper throw
RECURSIVE FoldLiveHashes(_, _, _)
FoldLiveHashes(branchFiles, live, acc) ==
    IF branchFiles = <<>> THEN [ok |-> TRUE, val |-> acc]
    ELSE
      LET hashHex == LiveHash(live, RouterFileName(Head(branchFiles)))
      IN  IF hashHex = <<>>
          THEN FoldLiveHashes(Tail(branchFiles), live, acc)
          ELSE
            LET buf == hexStringToUint8Array(hashHex)
                x   == IF buf.ok THEN xorBuffers(acc, buf.val)
                       ELSE [ok |-> FALSE, val |-> <<>>]
            IN  IF x.ok THEN FoldLiveHashes(Tail(branchFiles), live, x.val)
                ELSE [ok |-> FALSE, val |-> <<>>]

\* the synchronous part of routerForwardCall (lines 127-208): how it ends
\* ("noMapping", "noMask", "noBranch": logged and returned; "throw": an
\* exception reaches the caller; "importKey": the promise chain was started)
\* and the final key (hex) it imports
RouterSync(E, live, callee) ==
    LET fileKey == FileKeyOf(callee)
        m       == MappingIndex(E, fileKey)
        none(st) == [status |-> st, key |-> <<>>, branchFiles |-> <<>>]
    IN  IF m = 0 THEN none("noMapping")
        ELSE IF E.ivs[m].mask = <<>> THEN none("noMask")
        ELSE
          LET br == BranchOf(E, fileKey)
          IN  IF br.threw THEN none("throw")
              ELSE IF br.branchFiles = <<>> THEN none("noBranch")
              ELSE
                LET x  == FoldLiveHashes(br.branchFiles, live, ZeroKey)
                    mk == hexStringToUint8Array(E.ivs[m].mask)
                    k  == IF x.ok /\ mk.ok THEN xorBuffers(x.val, mk.val)
                          ELSE [ok |-> FALSE, val |-> <<>>]
                IN  IF ~k.ok THEN none("throw")
                    ELSE [status      |-> "importKey",
                          key         |-> uint8ArrayToHexString(k.val),
                          branchFiles |-> br.branchFiles]

(***************************************************************************)
(* parseAndCall.  A JavaScript value is [t, v, items]: t its type, v the   *)
(* text of a scalar (a number in canonical form), items the elements of an *)
(* array.                                                                  *)
(***************************************************************************)

StringValue(s)  == [t |-> "string",  v |-> s, items |-> <<>>]
NumberValue(s)  == [t |-> "number",  v |-> s, items |-> <<>>]
BooleanValue(b) == [t |-> "boolean", v |-> IF b THEN <<"true">> ELSE <<"false">>,
                    items |-> <<>>]
NullValue       == [t |-> "null",    v |-> <<>>, items |-> <<>>]
ObjectValue(s)  == [t |-> "object",  v |-> s, items |-> <<>>]
ArrayValue(xs)  == [t |-> "array",   v |-> <<>>, items |-> xs]

\* the numeric literals of the model and the number each denotes
NumericLiterals == {"0", "7", "07", "15"}
CanonicalNumber(w) == IF w = "07" THEN "7" ELSE w

\* Number(value): "" is 0, a numeric literal its number, anything else NaN
NumberOf(value) ==
    IF value = <<>> THEN NumberValue(<<"0">>)
    ELSE IF Len(value) = 1 /\ value[1] \in NumericLiterals
    THEN NumberValue(<<CanonicalNumber(value[1])>>)
    ELSE NumberValue(<<"NaN">>)

\* String.prototype.toLowerCase on the words of the model
LowerWord(w) == IF w \in {"TRUE", "True"} THEN "true" ELSE w
ToLowerCase(s) == [i \in 1..Len(s) |-> LowerWord(s[i])]

\* JSON.parse(value) inside try/catch: null when it throws
JsonParseOrNull(value) ==
    IF Len(value) # 1 THEN NullValue
    ELSE IF value[1] \in NumericLiterals \ {"07"} THEN NumberValue(value)
    ELSE IF value[1] = "true" THEN BooleanValue(TRUE)
    ELSE IF value[1] = "false" THEN BooleanValue(FALSE)
    ELSE IF value[1] = "{}" THEN ObjectValue(value)
    ELSE NullValue

\* the switch of lines 330-349
ConvertParam(type, value) ==
    IF type = <<"string">> THEN StringValue(value)
    ELSE IF type = <<"number">> THEN NumberOf(value)
    ELSE IF type = <<"boolean">> THEN BooleanValue(ToLowerCase(value) = <<"true">>)
    ELSE IF type = <<"object">> THEN JsonParseOrNull(value)
    ELSE IF type = <<"null">> THEN NullValue
    ELSE StringValue(value)

NullField == <<"null">>

\* parts[1] of callString.split("-"); a missing field is undefined, and
\* window[undefined] reads the property named "undefined"
FunctionNameOf(parts) == IF Len(parts) >= 2 THEN parts[2] ELSE <<"undefined">>

\* parseAndCall(callString, caller, ...rest) up to the lookup in window:
\* whether it goes on to the lookup, and with which name and arguments.
\* rest is the rest parameter args of parseAndCall.
parseAndCall(callString, rest) ==
    LET parts == Split(callString, "-")
        functionName == FunctionNameOf(parts)
        reject == [lookup |-> FALSE, fn |-> functionName, params |-> <<>>]
    IN  IF Len(rest) = 0
        THEN IF Len(parts) # 4 THEN reject
             ELSE IF parts[3] # NullField /\ parts[4] # NullField
             THEN LET types  == Split(parts[3], ",")
                      values == Split(parts[4], ",")
                  IN  IF Len(types) # Len(values) THEN reject
                      ELSE [lookup |-> TRUE, fn |-> functionName,
                            params |-> [i \in 1..Len(types) |->
                                           ConvertParam(types[i], values[i])]]
             ELSE [lookup |-> TRUE, fn |-> functionName, params |-> <<>>]
        ELSE [lookup |-> TRUE, fn |-> functionName, params |-> rest]

\* lines 231-239: routerForwardCall hands its own rest parameter args on:
\* nothing when it is empty, otherwise the array itself as one argument
RestPassedOn(args) == IF Len(args) = 0 THEN <<>> ELSE <<ArrayValue(args)>>

(***************************************************************************)
(* The promise chain of routerForwardCall (lines 208-242).                 *)
(*                                                                         *)
(* An invocation is [callString, callee, args, pc, status, key, plaintext, *)
(* outcome, hashes].  pc: "importKey" (chain started, first then pending), *)
(* "decrypted" (second then pending), "rejected" (catch pending), "done";  *)
(* hashes: window.globalHashes as the call read it.                        *)
(***************************************************************************)

\* functions that throw when invoked
ThrowingFns == {<<"boom">>}

\* lines 210-218: mappingForFile[key] for key === callString, 0 when no
\* ciphertext key equals the call string (the key "mask" is skipped: a call
\* string "mask" is a text, never an entry)
IvFor(E, fileKey, callString) ==
    LET m    == MappingIndex(E, fileKey)
        hits == {i \in 1..Len(E.ivs[m].entries) :
                    E.ivs[m].entries[i].ct = callString}
    IN  IF hits = {} THEN 0
        ELSE E.ivs[m].entries[CHOOSE i \in hits : TRUE].iv

\* what crypto.subtle.decrypt can settle to: the plaintext when key and IV
\* are the ones of the encryption; otherwise a rejection (bad padding, or
\* atob throwing on a string that is no base64) or text that is no descriptor
GarbageText == <<"?">>

\* a decryption that yields the plaintext under any key
DecryptWithAnyKey(callString, keyHex, iv) ==
    IF callString.kind = "ct" /\ callString.iv = iv
    THEN {[ok |-> TRUE, text |-> callString.pt]}
    ELSE {[ok |-> FALSE, text |-> <<>>], [ok |-> TRUE, text |-> GarbageText]}

DecryptOutcomes(callString, keyHex, iv) ==
    IF callString.kind = "ct" /\ callString.key = keyHex /\ callString.iv = iv
    THEN {[ok |-> TRUE, text |-> callString.pt]}
    ELSE {[ok |-> FALSE, text |-> <<>>], [ok |-> TRUE, text |-> GarbageText]}

\* a key reconstructed again from the table as it is when the then runs
KeyAtDecrypt(E, inv, live) == RouterSync(E, live, inv.callee).key

\* the CryptoKey the first then decrypts with: the argument of its callback,
\* imported from finalKeyRaw before routerForwardCall returned (lines 198-208)
ImportedKey(E, inv, live) == inv.key

\* a lookup that takes whatever window[functionName] holds for a function
AnyPropertyIsFunction(reg, functionName) == TRUE

\* typeof window[functionName] === 'function'
IsFunction(reg, functionName) == functionName \in reg

\* the first then (lines 208-230) of invocation i
ImportKeyThen(i) ==
    /\ i \in 1..Len(invocations)
    /\ invocations[i].pc = "importKey"
    /\ LET inv == invocations[i]
           iv  == IvFor(embedded, FileKeyOf(inv.callee), inv.callString)
       IN  IF iv = 0
           THEN \* "No IV found": return; the next then runs on undefined
                invocations' = [invocations EXCEPT
                                  ![i].pc = "decrypted", ![i].status = "noIv",
                                  ![i].plaintext = <<>>]
           ELSE \E o \in DecryptOutcomes(inv.callString,
                          ImportedKey(embedded, inv, globalHashes), iv) :
                invocations' = [invocations EXCEPT
                                  ![i].pc = IF o.ok THEN "decrypted" ELSE "rejected",
                                  ![i].status = IF o.ok THEN "decrypted"
                                                ELSE "decryptFailed",
                                  ![i].plaintext = o.text]
    /\ UNCHANGED <<proc, project, embedded, buildKeys, globalHashes, registry,
                   dispatched, thrown, now, verifier, overlays>>

\* the second then (lines 231-239) of invocation i: parseAndCall; an
\* exception of the target function is caught by the chain's catch
PlaintextThen(i) ==
    /\ i \in 1..Len(invocations)
    /\ invocations[i].pc = "decrypted"
    /\ LET inv == invocations[i]
           r   == parseAndCall(inv.plaintext, RestPassedOn(inv.args))
           hit == r.lookup /\ IsFunction(registry, r.fn)
       IN  /\ dispatched' = IF hit
                            THEN Append(dispatched,
                                   [inv |-> i, fn |-> r.fn, params |-> r.params])
                            ELSE dispatched
           /\ invocations' = [invocations EXCEPT
                                ![i].pc = "done",
                                ![i].outcome =
                                    IF ~r.lookup THEN "rejected"
                                    ELSE IF ~hit THEN "noFunction"
                                    ELSE IF r.fn \in ThrowingFns THEN "targetThrew"
                                    ELSE "dispatched"]
    /\ UNCHANGED <<proc, project, embedded, buildKeys, globalHashes, registry,
                   thrown, now, verifier, overlays>>

\* the catch (lines 240-242) of invocation i: logs "Decryption failed"
CatchHandler(i) ==
    /\ i \in 1..Len(invocations)
    /\ invocations[i].pc = "rejected"
    /\ invocations' = [invocations EXCEPT ![i].pc = "done",
                                          ![i].outcome = "caught"]
    /\ UNCHANGED <<proc, project, embedded, buildKeys, globalHashes, registry,
                   dispatched, thrown, now, verifier, overlays>>

(***************************************************************************)
(* The message listener (file1.js lines 3-14) and the call of              *)
(* routerForwardCall                                                       *)
(***************************************************************************)

\* lines 7-8: the last "/"-separated part of event.data.url
ListenerFileName(url) == SplitPop(url, {"/"})

\* f with f[key] = value, the other entries kept
SetEntry(f, key, value) ==
    [k \in DOMAIN f \cup {key} |-> IF k = key THEN value ELSE f[k]]

\* the listener on a {action: "hashSaved", url, hash} message
HashSaved(url, hash) ==
    /\ globalHashes' = SetEntry(globalHashes, ListenerFileName(url), hash)
    /\ UNCHANGED <<proc, project, embedded, buildKeys, registry, invocations,
                   dispatched, thrown, now, verifier, overlays>>

NewInvocation(callString, callee, args, r) ==
    [callString |-> callString, callee |-> callee, args |-> args,
     pc        |-> IF r.status = "importKey" THEN "importKey" ELSE "done",
     status    |-> r.status,
     key       |-> r.key,
     plaintext |-> <<>>,
     outcome   |-> IF r.status = "importKey" THEN "none"
                   ELSE IF r.status = "throw" THEN "threw"
                   ELSE "returned",
     hashes    |-> globalHashes]

\* routerForwardCall(callString, callee, ...args) up to its return to the
\* caller (lines 127-208 and the call of importKey)
routerForwardCall(callString, callee, args) ==
    LET r == RouterSync(embedded, globalHashes, callee)
    IN  /\ invocations' = Append(invocations,
                                 NewInvocation(callString, callee, args, r))
        /\ thrown' = IF r.status = "throw" THEN thrown + 1 ELSE thrown
        /\ UNCHANGED <<proc, project, embedded, buildKeys, globalHashes, registry,
                       dispatched, now, verifier, overlays>>

(***************************************************************************)
(* States outside a run of a component                                     *)
(***************************************************************************)

NoProject   == [sep |-> "/", rand |-> 0, files |-> <<>>, src |-> <<>>]
NoArtifacts == [tree |-> <<>>, ivs |-> <<>>, precomputed |-> <<>>]
VerifierOff == [pc |-> "off", startTime |-> 0, nextPoll |-> 0,
                ranVerify |-> FALSE, timedOut |-> FALSE, settled |-> 0,
                checked |-> 0]
NoHashes    == <<>>
NoProc      == [pc |-> "off"]

(***************************************************************************)
(* SpecParse: parseAndCall applied to decrypted descriptors.               *)
(* The second then of an invocation is pending on a plaintext drawn from   *)
(* the descriptors below, with and without trailing arguments.             *)
(***************************************************************************)

MaxParams == 2

TypeWords  == {"string", "number", "boolean", "object", "null", "Number"}
ValueWords == {"7", "07", "hello", "TRUE", "null", "{}"}

\* the comma-separated lists of n items, each one of the given strings
ListFields(strings, n) == {Join(items, ",") : items \in [1..n -> strings]}

\* type lists name one type per item; a value may also be the empty string
TypeFields  ==
    UNION {ListFields({<<w>> : w \in TypeWords}, n) : n \in 1..MaxParams}
ValueFields ==
    UNION {ListFields({<<w>> : w \in ValueWords} \cup {<<>>}, n) :
              n \in 1..MaxParams}

FnNames == {<<"fn">>, <<"boom">>}

\* static form: exactly four dash-separated fields
StaticDescriptors ==
    {Join(<<<<"f">>, <<"fn">>, t, v>>, "-") : t \in TypeFields, v \in ValueFields}

\* everything else a decrypt can hand on: the dynamic form, three and five
\* fields, a throwing target, no descriptor at all
OtherDescriptors ==
    {<<"f", "-", "fn">>,
     <<"f", "-", "boom">>,
     <<"f", "-", "fn", "-", "null">>,
     <<"f", "-", "fn", "-", "number", "-", "-", "7">>,
     <<"f", "-", "boom", "-", "null", "-", "null">>,
     GarbageText,
     <<>>}

Descriptors == StaticDescriptors \cup OtherDescriptors

\* the trailing arguments a call site passes
ArgLists ==
    UNION {[1..n -> {NumberValue(<<"15">>), StringValue(<<"hello">>)}] :
              n \in 0..MaxParams}

Registries == {{}, {<<"fn">>}, {<<"fn">>, <<"boom">>}}

PendingPlaintext(text, args) ==
    [callString |-> PlainArg(<<>>), callee |-> <<"a">>, args |-> args,
     pc |-> "decrypted", status |-> "decrypted", key |-> <<>>,
     plaintext |-> text, outcome |-> "none"]

InitParse ==
    /\ project = NoProject
    /\ embedded = NoArtifacts
    /\ buildKeys = <<>>
    /\ globalHashes = NoHashes
    /\ registry \in Registries
    /\ \E text \in Descriptors, args \in ArgLists :
          invocations = <<PendingPlaintext(text, args)>>
    /\ dispatched = <<>>
    /\ thrown = 0
    /\ now = 0
    /\ verifier = VerifierOff
    /\ overlays = 0
    /\ proc = NoProc

NextParse == \E i \in 1..Len(invocations) : PlaintextThen(i)

SpecParse == InitParse /\ [][NextParse]_vars

(***************************************************************************)
(* Claims on parseAndCall                                                  *)
(***************************************************************************)

\* the dispatches invocation i caused
DispatchesOf(i) == SelectSeq(dispatched, LAMBDA d : d.inv = i)

\* the fields of a decrypted descriptor
FieldsOf(text) == Split(text, "-")

\* C3: with n >= 1 trailing arguments and a descriptor naming a registered
\* function, the function is invoked once with exactly the n trailing
\* arguments, in order
C3_DynamicArgsPositional ==
    \A i \in 1..Len(invocations) :
        LET inv == invocations[i]
        IN  (/\ inv.pc = "done"
             /\ Len(inv.args) >= 1
             /\ IsFunction(registry, FunctionNameOf(FieldsOf(inv.plaintext))))
            => /\ Len(DispatchesOf(i)) = 1
               /\ DispatchesOf(i)[1].params = inv.args

\* the arguments C4 states for a 4-field descriptor with k types and k values
C4_StatedParams(text) ==
    LET f      == FieldsOf(text)
        types  == Split(f[3], ",")
        values == Split(f[4], ",")
    IN  IF f[3] = NullField /\ f[4] = NullField THEN <<>>
        ELSE [k \in 1..Len(types) |-> ConvertParam(types[k], values[k])]

\* C4: without trailing arguments, a 4-field descriptor with as many types
\* as values invokes the registered function with each value converted by
\* its type (null-null: with no arguments)
C4_StaticConversion ==
    \A i \in 1..Len(invocations) :
        LET inv == invocations[i]
            f   == FieldsOf(inv.plaintext)
        IN  (/\ inv.pc = "done"
             /\ Len(inv.args) = 0
             /\ Len(f) = 4
             /\ Len(Split(f[3], ",")) = Len(Split(f[4], ","))
             /\ IsFunction(registry, f[2]))
            => /\ Len(DispatchesOf(i)) = 1
               /\ DispatchesOf(i)[1].fn = f[2]
               /\ DispatchesOf(i)[1].params = C4_StatedParams(inv.plaintext)

\* C5: without trailing arguments, a descriptor that has not exactly four
\* fields, or whose type and value lists differ in length, invokes nothing
C5_MalformedRejected ==
    \A i \in 1..Len(invocations) :
        LET inv == invocations[i]
            f   == FieldsOf(inv.plaintext)
        IN  (/\ inv.pc = "done"
             /\ Len(inv.args) = 0
             /\ \/ Len(f) # 4
                \/ Len(Split(f[3], ",")) # Len(Split(f[4], ",")))
            => Len(DispatchesOf(i)) = 0

(***************************************************************************)
(* The projects the build is run on.                                       *)
(*                                                                         *)
(* Files: a.js (always router-dependent), b.js, d/c.js (in a subfolder),   *)
(* e.js and, optionally as the first file listed, Xa.js, whose name ends   *)
(* with "a.js".  Each file declares one function (fa, fb, fc, fe, fx).     *)
(***************************************************************************)

FileA(s)  == <<s, "a", ".js">>
FileB(s)  == <<s, "b", ".js">>
FileC(s)  == <<s, "d", s, "c", ".js">>
FileE(s)  == <<s, "e", ".js">>
FileXA(s) == <<s, "X", "a", ".js">>

Site(desc, callee, args) == [desc |-> desc, callee |-> callee, args |-> args]

\* window["routerForwardCall"]("b-fb-null-null", "a")
SiteB == Site(<<"b", "-", "fb", "-", "null", "-", "null">>, <<"a">>, <<>>)
\* window["routerForwardCall"]("c-fc", "a", 15)
SiteC == Site(<<"c", "-", "fc">>, <<"a">>, <<NumberValue(<<"15">>)>>)
\* window["routerForwardCall"]("e-fe-number,string-7,hello", "a")
SiteE == Site(<<"e", "-", "fe", "-", "number", ",", "string", "-",
                "7", ",", "hello">>, <<"a">>, <<>>)
\* a descriptor whose first token names no file of the project
SiteNone == Site(<<"zz", "-", "fn", "-", "null", "-", "null">>, <<"a">>, <<>>)

Src(text, marker, declared, called, sites) ==
    [text |-> text, marker |-> marker, declared |-> declared,
     called |-> called, sites |-> sites]

\* a.js with the given call sites (at least one: it is router-dependent)
SrcA(sites) == Src(1, TRUE, <<"fa">>, <<>>, sites)

BKinds == {"leaf", "callsC", "callsE", "routerC"}
SrcB(kind) ==
    IF kind = "callsC" THEN Src(2, FALSE, <<"fb">>, <<"fc">>, <<>>)
    ELSE IF kind = "callsE" THEN Src(2, FALSE, <<"fb">>, <<"fe">>, <<>>)
    ELSE IF kind = "routerC"
    THEN Src(2, TRUE, <<"fb">>, <<>>,
             <<Site(<<"c", "-", "fc", "-", "null", "-", "null">>, <<"b">>, <<>>)>>)
    ELSE Src(2, FALSE, <<"fb">>, <<>>, <<>>)

CKinds == {"leaf", "callsB", "callsE", "routerB"}
SrcC(kind) ==
    IF kind = "callsB" THEN Src(3, FALSE, <<"fc">>, <<"fb">>, <<>>)
    ELSE IF kind = "callsE" THEN Src(3, FALSE, <<"fc">>, <<"fe">>, <<>>)
    ELSE IF kind = "routerB"
    THEN Src(3, TRUE, <<"fc">>, <<>>,
             <<Site(<<"b", "-", "fb", "-", "null", "-", "null">>, <<"c">>, <<>>)>>)
    ELSE Src(3, FALSE, <<"fc">>, <<>>, <<>>)

\* e.js: a leaf; an empty file declares nothing
SrcE(empty) ==
    IF empty THEN Src(0, FALSE, <<>>, <<>>, <<>>)
    ELSE Src(4, FALSE, <<"fe">>, <<>>, <<>>)

XKinds == {"none", "plain", "router"}
SrcXA(kind) ==
    IF kind = "router"
    THEN Src(5, TRUE, <<"fx">>, <<>>,
             <<Site(<<"e", "-", "fe", "-", "null", "-", "null">>, <<"X", "a">>,
                  <<>>)>>)
    ELSE Src(5, FALSE, <<"fx">>, <<>>, <<>>)

\* the call-site lists of a.js: every sublist of <<SiteB, SiteC, SiteE>>,
\* and SiteNone alone when it would be empty
ASiteLists ==
    {IF picks = {} THEN <<SiteNone>>
     ELSE SelectSeq(<<SiteB, SiteC, SiteE>>, LAMBDA x : x \in picks) :
        picks \in SUBSET {SiteB, SiteC, SiteE}}

MkProject(s, aSites, bKind, cKind, eEmpty, xKind) ==
    LET base  == <<FileA(s), FileB(s), FileC(s), FileE(s)>>
        files == IF xKind = "none" THEN base ELSE <<FileXA(s)>> \o base
    IN  [sep   |-> s,
         rand  |-> 0,
         files |-> files,
         src   |-> [f \in SeqToSet(files) |->
                       IF f = FileA(s) THEN SrcA(aSites)
                       ELSE IF f = FileB(s) THEN SrcB(bKind)
                       ELSE IF f = FileC(s) THEN SrcC(cKind)
                       ELSE IF f = FileE(s) THEN SrcE(eEmpty)
                       ELSE SrcXA(xKind)]]

Projects ==
    {MkProject(s, aSites, bKind, cKind, eEmpty, xKind) :
        s \in {"\\", "/"}, aSites \in ASiteLists, bKind \in BKinds,
        cKind \in CKinds, eEmpty \in BOOLEAN, xKind \in XKinds}

(***************************************************************************)
(* The hashing collaborator (part_001 lines 1-41): for every loaded script *)
(* it posts {url, hash} with the SHA-256 of the fetched text.              *)
(***************************************************************************)

\* the URL the page loads a shipped file from: the recompiled path with "/"
ShippedUrl(P, file) ==
    LET path == RecompiledPath(P, file)
    IN  [i \in 1..Len(path) |-> IF path[i] = P.sep THEN "/" ELSE path[i]]

\* the number of the text of the Router.js updateRouterJS writes into the
\* recompiled folder (the three constants and the runtime)
RouterJsText == 15

\* the URL the page loads the recompiled Router.js from
RouterJsUrl(P) == ShippedUrl(P, <<P.sep>> \o RouterJsName)

\* window.globalHashes once the hash of every shipped, unmodified file of
\* the project and of the recompiled Router.js has been received
AllShippedHashes(P) ==
    LET names == {ListenerFileName(ShippedUrl(P, P.files[i])) :
                     i \in 1..Len(P.files)}
        lastOf(n) == CHOOSE i \in 1..Len(P.files) :
                        /\ ListenerFileName(ShippedUrl(P, P.files[i])) = n
                        /\ \A j \in 1..Len(P.files) :
                              ListenerFileName(ShippedUrl(P, P.files[j])) = n
                                 => j <= i
    IN  [n \in names \cup {ListenerFileName(RouterJsUrl(P))} |->
            IF n = ListenerFileName(RouterJsUrl(P)) THEN Sha256(RouterJsText)
            ELSE Sha256(ShippedText(P, P.files[lastOf(n)]))]

\* the functions the page's scripts register on window
PageFunctions ==
    {<<"fa">>, <<"fb">>, <<"fc">>, <<"fe">>, <<"fx">>, <<"fn">>, <<"boom">>}

(***************************************************************************)
(* SpecKey: a build on any project of the family, then one invocation of   *)
(* a rewritten call site on the page, every shipped hash being published.  *)
(***************************************************************************)

MaxInvocations == 1

\* the rewritten call sites of the shipped files: the ciphertext that
\* replaced the descriptor, the callee and the trailing arguments
ShippedCalls(P) ==
    LET keys == encryptionKeys(P)
    IN  UNION {
          LET f     == FindRouterFile(P, keys[n].baseName)
              calls == encryptedCalls(P, keys[n])
          IN  {[callString |-> calls[k].ciphertext,
                callee     |-> P.src[f].sites[k].callee,
                args       |-> P.src[f].sites[k].args] : k \in 1..Len(calls)}
          : n \in 1..Len(keys)}

InitKey ==
    /\ project \in Projects
    /\ embedded = Artifacts(project)
    /\ buildKeys = encryptionKeys(project)
    /\ globalHashes = AllShippedHashes(project)
    /\ registry = PageFunctions
    /\ invocations = <<>>
    /\ dispatched = <<>>
    /\ thrown = 0
    /\ now = 0
    /\ verifier = VerifierOff
    /\ overlays = 0
    /\ proc = NoProc

CallShipped ==
    /\ Len(invocations) < MaxInvocations
    /\ \E c \in ShippedCalls(project) :
          routerForwardCall(c.callString, c.callee, c.args)

NextKey ==
    \/ CallShipped
    \/ \E i \in 1..Len(invocations) : ImportKeyThen(i)
    \/ \E i \in 1..Len(invocations) : PlaintextThen(i)
    \/ \E i \in 1..Len(invocations) : CatchHandler(i)

SpecKey == InitKey /\ [][NextKey]_vars

(***************************************************************************)
(* Claims on the key and on the shipped calls                              *)
(***************************************************************************)

\* encryptionKeys[fileKey].key of the build, <<>> when there is no entry
BuildKeyFor(fileKey) ==
    LET hits == {n \in 1..Len(buildKeys) : buildKeys[n].baseName = fileKey}
    IN  IF hits = {} THEN <<>>
        ELSE buildKeys[CHOOSE n \in hits : TRUE].keys.key

\* the invocation got as far as importing a key
ReconstructedKey(inv) ==
    inv.status \notin {"noMapping", "noMask", "noBranch", "throw"}

\* C1: with the hash of every shipped file in the live table, the key
\* routerForwardCall reconstructs for a router-dependent callee is the key
\* computeKeyForRouterFile derived for that file at build time
C1_KeyReconstruction ==
    \A i \in 1..Len(invocations) :
        ReconstructedKey(invocations[i])
            => invocations[i].key = BuildKeyFor(FileKeyOf(invocations[i].callee))

\* C2: with the hash of every shipped file in the live table, a call with a
\* ciphertext of the build and its file as callee decrypts to the original
\* descriptor and invokes the function the descriptor names
C2_ShippedCallDispatches ==
    \A i \in 1..Len(invocations) :
        LET inv == invocations[i]
        IN  inv.pc = "done"
            => /\ inv.plaintext = inv.callString.pt
               /\ Len(DispatchesOf(i)) = 1
               /\ DispatchesOf(i)[1].fn = FunctionNameOf(FieldsOf(inv.callString.pt))

(***************************************************************************)
(* SpecRouter: routerForwardCall on a page whose embedded mask, live hash  *)
(* table and registry are arbitrary, called with ciphertexts of the build  *)
(* and with a string the build never wrote, for several callee ids, with   *)
(* and without trailing arguments.                                         *)
(***************************************************************************)

\* window["routerForwardCall"]("b-boom-null-null", "a")
SiteBoom == Site(<<"b", "-", "boom", "-", "null", "-", "null">>, <<"a">>, <<>>)

\* a.js with one call site; optionally Xa.js (not router-dependent) listed
\* before it
RouterProjects ==
    {MkProject("/", aSites, "leaf", "leaf", FALSE, xKind) :
        aSites \in {<<SiteB>>, <<SiteBoom>>, <<SiteNone>>},
        xKind \in {"none", "plain"}}

\* the mask fields an IVS_MAPPING_BASE64 can carry: the one the build wrote,
\* none, an odd number of hex digits, fewer than 32 bytes
MaskKinds == {"built", "missing", "oddLength", "short"}

DamagedHex(hex, kind) ==
    IF kind = "missing" THEN <<>>
    ELSE IF kind = "oddLength" THEN Tail(hex)
    ELSE IF kind = "short" THEN SubSeq(hex, 1, 2)
    ELSE hex

WithMask(E, kind) ==
    [E EXCEPT !.ivs = [n \in 1..Len(E.ivs) |->
                          [E.ivs[n] EXCEPT !.mask = DamagedHex(@, kind)]]]

\* the hash of a file whose text was modified after the build
TamperedHash(P, file) == Sha256(ShippedText(P, file) + 16)

\* what the live table can hold for b.js when every other hash is correct
LiveHashKinds == {"correct", "absent", "tampered", "oddLength", "short"}

RouterTable(P, kind) ==
    LET all  == AllShippedHashes(P)
        name == ListenerFileName(ShippedUrl(P, FileB(P.sep)))
    IN  IF kind = "correct" THEN all
        ELSE IF kind = "absent" THEN [n \in DOMAIN all \ {name} |-> all[n]]
        ELSE IF kind = "tampered"
        THEN SetEntry(all, name, TamperedHash(P, FileB(P.sep)))
        ELSE SetEntry(all, name, DamagedHex(all[name], kind))

\* the calls made on the page
RouterCalls(P) ==
    {[callString |-> cs, callee |-> c, args |-> a] :
        cs \in {x.callString : x \in ShippedCalls(P)} \cup {PlainArg(SiteB.desc)},
        c  \in {<<"a">>, <<"a", ".js">>, <<"b">>},
        a  \in {<<>>, <<NumberValue(<<"15">>)>>}}

InitRouter ==
    /\ project \in RouterProjects
    /\ \E kind \in MaskKinds : embedded = WithMask(Artifacts(project), kind)
    /\ buildKeys = encryptionKeys(project)
    /\ \E kind \in LiveHashKinds : globalHashes = RouterTable(project, kind)
    /\ registry \in {PageFunctions, PageFunctions \ {<<"fb">>}}
    /\ invocations = <<>>
    /\ dispatched = <<>>
    /\ thrown = 0
    /\ now = 0
    /\ verifier = VerifierOff
    /\ overlays = 0
    /\ proc = NoProc

CallRouter ==
    /\ Len(invocations) < MaxInvocations
    /\ \E c \in RouterCalls(project) :
          routerForwardCall(c.callString, c.callee, c.args)

NextRouter ==
    \/ CallRouter
    \/ \E i \in 1..Len(invocations) : ImportKeyThen(i)
    \/ \E i \in 1..Len(invocations) : PlaintextThen(i)
    \/ \E i \in 1..Len(invocations) : CatchHandler(i)

SpecRouter == InitRouter /\ [][NextRouter]_vars

\* the four configuration-error cases of routerForwardCall
ConfigError(inv) == inv.status \in {"noMapping", "noMask", "noBranch", "noIv"}

\* C6: a call that ends in one of the four configuration errors (no mapping
\* entry, no mask, no dependency branch, no IV for the call string) invokes
\* no registered function, with or without trailing arguments
C6_ConfigErrorNoDispatch ==
    \A i \in 1..Len(invocations) :
        ConfigError(invocations[i]) => Len(DispatchesOf(i)) = 0

\* a call with trailing arguments whose string is no key of the mapping has
\* run to its end
C6_Witness ==
    \E i \in 1..Len(invocations) :
        /\ invocations[i].status = "noIv"
        /\ invocations[i].pc = "done"
        /\ Len(invocations[i].args) > 0

\* C7: routerForwardCall never throws to its caller
C7_NeverThrows == thrown = 0

(***************************************************************************)
(* Tamper Verifier (part_001 lines 411-463).                               *)
(*                                                                         *)
(* verifier is [pc, startTime, nextPoll, ranVerify, timedOut, settled,     *)
(* checked]: pc "waiting" while waitForGlobalHashes polls, "done" once the *)
(* chain has settled; nextPoll the time the pending setTimeout is due;     *)
(* ranVerify / timedOut whether the then (verifyHashes) or the catch of    *)
(* the chain ran; settled how often the promise settled; checked how many  *)
(* entries verifyHashes compared.                                          *)
(***************************************************************************)

\* waitForGlobalHashes(timeout = 5000, interval = 100)
Timeout  == 5000
Interval == 100

\* fullPath.split('\\').pop() of verifyHashes
VerifierFileName(fullPath) == SplitPop(fullPath, {"\\"})

\* the keys of simplifiedPrecomputed, one per entry of precomputed
SimplifiedNames(precomputed) ==
    [i \in 1..Len(precomputed) |-> VerifierFileName(precomputed[i].path)]

\* the entry of a key first inserted at i: the value is the one assigned last
SimplifiedEntry(precomputed, names, i) ==
    [file |-> names[i],
     hash |-> precomputed[CHOOSE j \in 1..Len(names) :
                             /\ names[j] = names[i]
                             /\ \A k \in (j + 1)..Len(names) : names[k] # names[i]
                         ].hash]

\* the positions at which a key of simplifiedPrecomputed is first inserted
FirstInsertions(names) ==
    SelectSeq([i \in 1..Len(names) |-> i],
              LAMBDA i : \A j \in 1..(i - 1) : names[j] # names[i])

\* the entries of simplifiedPrecomputed, given the positions of its keys
SimplifiedEntries(precomputed, names, firsts) ==
    [n \in 1..Len(firsts) |-> SimplifiedEntry(precomputed, names, firsts[n])]

\* simplifiedPrecomputed, given its keys (the positions computed once)
SimplifiedOfNames(precomputed, names) ==
    CHOOSE r \in {SimplifiedEntries(precomputed, names, firsts) :
                     firsts \in {FirstInsertions(names)}} : TRUE

\* simplifiedPrecomputed: the entries { fileName: hash } in key order (a key
\* stands where it was first inserted and holds the value assigned last)
SimplifiedPrecomputed(precomputed) ==
    CHOOSE r \in {SimplifiedOfNames(precomputed, names) :
                     names \in {SimplifiedNames(precomputed)}} : TRUE

\* !expectedHash || actualHash !== expectedHash
HashMismatch(actualHash, expectedHash) ==
    expectedHash = <<>> \/ actualHash # expectedHash

\* the comparison loop of verifyHashes: the index of the entry it stops at
\* (0: every entry matched)
FirstMismatch(simplified, live) ==
    LET hits == {n \in 1..Len(simplified) :
                    HashMismatch(LiveHash(live, simplified[n].file),
                                 simplified[n].hash)}
    IN  IF hits = {} THEN 0 ELSE CHOOSE n \in hits : \A m \in hits : n <= m

VerifyOutcome(simplified, stop) ==
    [overlay |-> stop # 0,
     checked |-> IF stop = 0 THEN Len(simplified) ELSE stop]

\* the comparison loop and its outcome (the stopping entry computed once)
VerifySimplified(simplified, live) ==
    CHOOSE r \in {VerifyOutcome(simplified, stop) :
                     stop \in {FirstMismatch(simplified, live)}} : TRUE

\* verifyHashes(): whether it calls showTamperOverlay, and how many entries
\* it compared
verifyHashes(precomputed, live) ==
    CHOOSE r \in {VerifySimplified(simplified, live) :
                     simplified \in {SimplifiedPrecomputed(precomputed)}} : TRUE

\* Date.now() - startTime with the operands exchanged
ElapsedSwapped(nowMs, startTime) == startTime - nowMs

\* Date.now() - startTime
Elapsed(nowMs, startTime) == nowMs - startTime

\* window.globalHashes && Object.keys(window.globalHashes).length > 0
HashesAvailable(live) == DOMAIN live # {}

\* the then of the start-up chain: verifyHashes()
ThenVerify(r) ==
    /\ verifier' = [verifier EXCEPT !.pc = "done", !.ranVerify = TRUE,
                                    !.settled = @ + 1, !.checked = r.checked]
    /\ overlays' = IF r.overlay THEN overlays + 1 ELSE overlays

\* the catch of the start-up chain: showTamperOverlay()
CatchTimeout ==
    /\ verifier' = [verifier EXCEPT !.pc = "done", !.timedOut = TRUE,
                                    !.settled = @ + 1]
    /\ overlays' = overlays + 1

\* one run of check() (lines 440-448) with the reactions of the chain that
\* run before any other task
check ==
    /\ verifier.pc = "waiting"
    /\ now >= verifier.nextPoll
    /\ IF HashesAvailable(globalHashes)
       THEN \E r \in {verifyHashes(embedded.precomputed, globalHashes)} :
                ThenVerify(r)
       ELSE IF Elapsed(now, verifier.startTime) >= Timeout
       THEN CatchTimeout
       ELSE /\ verifier' = [verifier EXCEPT !.nextPoll = now + Interval]
            /\ overlays' = overlays
    /\ UNCHANGED <<proc, project, embedded, buildKeys, globalHashes, registry,
                   invocations, dispatched, thrown, now>>

(***************************************************************************)
(* SpecVerify: a page is loaded; the clock runs, the hashing collaborator  *)
(* posts the hash of each shipped file once (of the file as shipped or of  *)
(* a modified file), the verifier polls.                                   *)
(***************************************************************************)

\* how many poll intervals late a timer fires at most
MaxLate == 2

\* a.js, router-dependent, calling into d/c.js; both separators
VerifyProject(s) ==
    [sep   |-> s,
     rand  |-> 0,
     files |-> <<FileA(s), FileC(s)>>,
     src   |-> [f \in {FileA(s), FileC(s)} |->
                   IF f = FileA(s) THEN SrcA(<<SiteC>>) ELSE SrcC("leaf")]]

VerifyProjects == {VerifyProject(s) : s \in {"\\", "/"}}

InitVerify ==
    /\ project \in VerifyProjects
    /\ embedded = Artifacts(project)
    /\ buildKeys = encryptionKeys(project)
    /\ globalHashes = NoHashes
    /\ registry = PageFunctions
    /\ invocations = <<>>
    /\ dispatched = <<>>
    /\ thrown = 0
    /\ now \in {0, Interval}
    /\ verifier = [VerifierOff EXCEPT !.pc = "waiting", !.startTime = now,
                                      !.nextPoll = now]
    /\ overlays = 0
    /\ proc = NoProc

\* the clock advances while the verifier waits for its timer
Tick ==
    /\ verifier.pc = "waiting"
    /\ now < verifier.nextPoll + MaxLate * Interval
    /\ now < verifier.startTime + Timeout + MaxLate * Interval
    /\ now' = now + Interval
    /\ UNCHANGED <<proc, project, embedded, buildKeys, globalHashes, registry,
                   invocations, dispatched, thrown, verifier, overlays>>

\* the hashSaved message for a shipped file or for the recompiled
\* Router.js arrives
Publish ==
    \/ \E i \in 1..Len(project.files), modified \in BOOLEAN :
          /\ ListenerFileName(ShippedUrl(project, project.files[i]))
                \notin DOMAIN globalHashes
          /\ HashSaved(ShippedUrl(project, project.files[i]),
                       IF modified THEN TamperedHash(project, project.files[i])
                       ELSE Sha256(ShippedText(project, project.files[i])))
    \/ /\ ListenerFileName(RouterJsUrl(project)) \notin DOMAIN globalHashes
       /\ HashSaved(RouterJsUrl(project), Sha256(RouterJsText))

NextVerify == Tick \/ Publish \/ check

SpecVerify == InitVerify /\ [][NextVerify]_vars

\* timers fire and time passes
FairSpecVerify == SpecVerify /\ WF_vars(Tick) /\ WF_vars(check)

(***************************************************************************)
(* Claims on the Tamper Verifier                                           *)
(***************************************************************************)

\* the entries of the embedded precomputed table whose hash the live table
\* does not hold under the entry's bare file name (its last path segment)
MismatchedEntries(precomputed, live) ==
    {n \in 1..Len(precomputed) :
        LiveHash(live, RouterFileName(precomputed[n].path)) # precomputed[n].hash}

\* the step in which verifyHashes runs
VerifyRuns == verifier'.ranVerify /\ ~verifier.ranVerify

\* C8: when verifyHashes runs, the overlay is shown if and only if some
\* precomputed entry has no hash or a different hash in the live table
\* under its bare file name; it is shown once, at the first such entry, and
\* no later entry is checked; when every entry matches none is shown
C8_OverlayIffMismatch ==
    [][VerifyRuns =>
          LET bad == MismatchedEntries(embedded.precomputed, globalHashes)
          IN  IF bad = {}
              THEN /\ overlays' = overlays
                   /\ verifier'.checked = Len(embedded.precomputed)
              ELSE /\ overlays' = overlays + 1
                   /\ verifier'.checked = CHOOSE n \in bad : \A m \in bad : n <= m
      ]_vars

\* C9: the wait started at load settles, exactly once: it resolves, and
\* verifyHashes runs, when a poll sees the live table non-empty; otherwise it
\* rejects once the timeout has elapsed, and the overlay is shown; it never
\* stays pending and never takes both paths
C9_WaitSettlesOnce ==
    /\ <>(verifier.pc = "done")
    /\ [](/\ verifier.settled <= 1
          /\ (verifier.pc = "done" <=> verifier.settled = 1)
          /\ (verifier.pc = "done" <=> (verifier.ranVerify \/ verifier.timedOut))
          /\ ~(verifier.ranVerify /\ verifier.timedOut)
          /\ (verifier.timedOut => overlays = 1))
    /\ [][/\ VerifyRuns => HashesAvailable(globalHashes)
          /\ (verifier'.timedOut /\ ~verifier.timedOut)
                => /\ ~HashesAvailable(globalHashes)
                   /\ Elapsed(now, verifier.startTime) >= Timeout
      ]_vars

\* the wait was rejected by the timeout and the overlay is up
C9_Witness ==
    /\ verifier.pc = "done"
    /\ verifier.timedOut
    /\ verifier.settled = 1
    /\ overlays = 1

\* every hash in the live table is the hash of the file as shipped
CorrectlyPublished ==
    \A i \in 1..Len(project.files) :
        LiveHash(globalHashes,
                 ListenerFileName(ShippedUrl(project, project.files[i])))
            \in {<<>>, Sha256(ShippedText(project, project.files[i]))}

\* C10: while the collaborator publishes the correct hash of each file one
\* at a time, in any order and inside the timeout, the verifier never shows
\* the overlay
C10_NoOverlayWhilePublishing ==
    (CorrectlyPublished /\ ~verifier.timedOut) => overlays = 0

(***************************************************************************)
(* The build's analysis and the tree walks, one call or return at a time.  *)
(*                                                                         *)
(* proc is [pc, unreadable, root, stack, tree, visited, branchFiles,       *)
(* collected, branches]:                                                   *)
(*   pc          "read" (analyzeDependencies before its first              *)
(*               processFile), "processFile", "collectHashes",             *)
(*               "collectDeps", "done"; "threw": an exception ended the    *)
(*               build; "overflow": a call found the call stack full       *)
(*               (RangeError)                                              *)
(*   unreadable  the files fs.readFileSync fails on                        *)
(*   root        index of the root the current walk started from           *)
(*   stack       the frames of the recursion, the innermost last           *)
(*   tree        dependencyTree: the entries of the roots finished         *)
(*   visited     the Set the calls of one collect walk share               *)
(*   branchFiles the array collectDeps pushes to                           *)
(*   collected   per router-dependent root, the files whose hashes         *)
(*               collectHashesFromDependencies returned                    *)
(*   branches    per router-dependent root, the branchFiles of collectDeps *)
(***************************************************************************)

\* the number of frames the call stack holds
MaxStack == 4

\* the files the two loops of processFile look at, in order: fileBaseIndex of
\* each router call site, then globalFunctionIndex of each called name that
\* the file does not declare (NoFile: nothing found)
Candidates(P, file) ==
    [i \in 1..Len(P.src[file].sites) |->
        IF RouterCallBase(P.src[file].sites[i].desc) = <<>> THEN NoFile
        ELSE fileBaseIndex(P, RouterCallBase(P.src[file].sites[i].desc))]
    \o
    [i \in 1..Len(P.src[file].called) |->
        IF P.src[file].called[i] \in SeqToSet(P.src[file].declared) THEN NoFile
        ELSE globalFunctionIndex(P, P.src[file].called[i])]

\* a condition that lets processFile recurse into every file found
RecursesAlways(file, dependentFile, visited) ==
    dependentFile # NoFile /\ dependentFile # file

\* dependentFile && dependentFile !== file && !visited.has(dependentFile)
Recurses(file, dependentFile, visited) ==
    dependentFile # NoFile /\ dependentFile # file /\ dependentFile \notin visited

\* a call that hands its own Set to the callee
SameSet(callerVisited, calleeVisited) == calleeVisited

\* processFile(dependentFile, new Set(visited)): the caller's Set after the
\* call is the one it had, whatever the callee added to its copy
NewSet(callerVisited, calleeVisited) == callerVisited

\* the frame of processFile(file, visited) after visited.add(file)
ProcessFrame(P, file, visited) ==
    [file         |-> file,
     visited      |-> visited \cup {file},
     todo         |-> Candidates(P, file),
     dependencies |-> <<>>]

\* dependencies[key] = node on the entries of an object
AssignEntry(entries, key, node) ==
    IF \E i \in 1..Len(entries) : entries[i].file = key
    THEN [i \in 1..Len(entries) |->
             IF entries[i].file = key THEN [file |-> key, node |-> node]
             ELSE entries[i]]
    ELSE Append(entries, [file |-> key, node |-> node])

\* the stack with its innermost frame replaced
WithTop(stack, frame) == [stack EXCEPT ![Len(stack)] = frame]

\* the stack without its innermost frame
Popped(stack) == SubSeq(stack, 1, Len(stack) - 1)

\* the frame of a collect walk over the entries of a dependencies object
CollectFrame(entries) == [entries |-> entries, collected |-> <<>>]

\* indices of the router-dependent roots of a tree from index k on
RouterRootsFrom(tree, k) ==
    {i \in k..Len(tree) : tree[i].node.routerDependant}

\* the first router-dependent root from index k on, 0 when there is none
NextRouterRoot(tree, k) ==
    IF RouterRootsFrom(tree, k) = {} THEN 0
    ELSE CHOOSE i \in RouterRootsFrom(tree, k) :
             \A j \in RouterRootsFrom(tree, k) : i <= j

\* proc at the start of a collect walk (phase) from root k, or after the
\* last walk of the phase (next: the pc that follows the phase)
StartWalk(p, phase, k, next) ==
    IF k = 0
    THEN [p EXCEPT !.pc = next, !.root = 0, !.stack = <<>>,
                   !.visited = {}, !.branchFiles = <<>>]
    ELSE [p EXCEPT !.pc = phase, !.root = k,
                   !.stack = <<CollectFrame(p.tree[k].node.dependencies)>>,
                   !.visited = {}, !.branchFiles = <<>>]

\* analyzeDependencies up to the first processFile (lines 473-504): a file
\* that cannot be read gets no fileDeclarations entry, and the loop that
\* builds globalFunctionIndex throws on it (line 499)
ReadFiles ==
    /\ proc.pc = "read"
    /\ \E r \in {IF proc.unreadable \cap SeqToSet(project.files) # {}
                THEN [proc EXCEPT !.pc = "threw"]
                ELSE [proc EXCEPT !.pc = "processFile", !.root = 1,
                        !.stack = <<ProcessFrame(project, project.files[1], {})>>]} :
          proc' = r
    /\ UNCHANGED <<project, embedded, buildKeys, globalHashes, registry,
                   invocations, dispatched, thrown, now, verifier, overlays>>

\* processFile finds a file to recurse into and calls itself
ProcessCall ==
    /\ proc.pc = "processFile"
    /\ LET top == proc.stack[Len(proc.stack)]
       IN  /\ top.todo # <<>>
           /\ Recurses(top.file, Head(top.todo), top.visited)
           /\ \E r \in {IF Len(proc.stack) >= MaxStack
                       THEN [proc EXCEPT !.pc = "overflow"]
                       ELSE [proc EXCEPT !.stack =
                               Append(@, ProcessFrame(project, Head(top.todo),
                                                      top.visited))]} :
                 proc' = r
    /\ UNCHANGED <<project, embedded, buildKeys, globalHashes, registry,
                   invocations, dispatched, thrown, now, verifier, overlays>>

\* processFile passes over a call that names no file, its own file or a
\* file already on the path
ProcessSkip ==
    /\ proc.pc = "processFile"
    /\ LET top == proc.stack[Len(proc.stack)]
       IN  /\ top.todo # <<>>
           /\ ~Recurses(top.file, Head(top.todo), top.visited)
           /\ proc' = [proc EXCEPT !.stack =
                          WithTop(@, [top EXCEPT !.todo = Tail(@)])]
    /\ UNCHANGED <<project, embedded, buildKeys, globalHashes, registry,
                   invocations, dispatched, thrown, now, verifier, overlays>>

\* the node processFile returns
ReturnedNode(P, frame) ==
    [routerDependant |-> P.src[frame.file].marker,
     dependencies    |-> frame.dependencies]

\* the caller's frame after processFile returned child for its first
\* candidate
AfterProcessReturn(P, caller, callee) ==
    [caller EXCEPT
        !.visited      = NewSet(caller.visited, callee.visited),
        !.dependencies = AssignEntry(@, callee.file, ReturnedNode(P, callee)),
        !.todo         = Tail(@)]

\* proc once the root's processFile has returned: the next root, or the
\* collect walks when it was the last
AfterRoot(P, p, top) ==
    IF p.root < Len(P.files)
    THEN [p EXCEPT !.root = p.root + 1,
                   !.tree = Append(@, [file |-> top.file,
                                       node |-> ReturnedNode(P, top)]),
                   !.stack = <<ProcessFrame(P, P.files[p.root + 1], {})>>]
    ELSE StartWalk([p EXCEPT !.tree = Append(@, [file |-> top.file,
                                              node |-> ReturnedNode(P, top)])],
                   "collectHashes",
                   NextRouterRoot(Append(p.tree,
                                         [file |-> top.file,
                                          node |-> ReturnedNode(P, top)]), 1),
                   "done")

\* processFile returns { routerDependant, dependencies }
ProcessReturn ==
    /\ proc.pc = "processFile"
    /\ LET top == proc.stack[Len(proc.stack)]
       IN  /\ top.todo = <<>>
           /\ \E r \in {IF Len(proc.stack) = 1
                       THEN AfterRoot(project, proc, top)
                       ELSE [proc EXCEPT !.stack =
                               WithTop(Popped(@),
                                   AfterProcessReturn(project,
                                       proc.stack[Len(proc.stack) - 1], top))]} :
                 proc' = r
    /\ UNCHANGED <<project, embedded, buildKeys, globalHashes, registry,
                   invocations, dispatched, thrown, now, verifier, overlays>>

\* collected[depFile] = hashUint8 when the node is not router-dependent and
\* fileContents[depFile] is truthy
OwnCollected(P, d) ==
    IF ~d.node.routerDependant /\ P.src[d.file].text # 0
    THEN <<d.file>>
    ELSE <<>>

\* for (const key in subCollected) collected[key] = subCollected[key], on
\* the keys
MergeKeys(collected, subCollected) == Dedup(collected \o subCollected)

\* collectHashesFromDependencies meets an entry not yet visited and calls
\* itself on its dependencies
HashesCall ==
    /\ proc.pc = "collectHashes"
    /\ LET top == proc.stack[Len(proc.stack)]
       IN  /\ top.entries # <<>>
           /\ Head(top.entries).file \notin proc.visited
           /\ proc' = IF Len(proc.stack) >= MaxStack
                      THEN [proc EXCEPT !.pc = "overflow"]
                      ELSE [proc EXCEPT
                              !.visited = @ \cup {Head(top.entries).file},
                              !.stack = Append(
                                  WithTop(@, [top EXCEPT !.collected =
                                      MergeKeys(@, OwnCollected(project,
                                                     Head(top.entries)))]),
                                  CollectFrame(
                                      Head(top.entries).node.dependencies))]
    /\ UNCHANGED <<project, embedded, buildKeys, globalHashes, registry,
                   invocations, dispatched, thrown, now, verifier, overlays>>

\* if (visited.has(depFile)) continue
HashesSkip ==
    /\ proc.pc = "collectHashes"
    /\ LET top == proc.stack[Len(proc.stack)]
       IN  /\ top.entries # <<>>
           /\ Head(top.entries).file \in proc.visited
           /\ proc' = [proc EXCEPT !.stack =
                          WithTop(@, [top EXCEPT !.entries = Tail(@)])]
    /\ UNCHANGED <<project, embedded, buildKeys, globalHashes, registry,
                   invocations, dispatched, thrown, now, verifier, overlays>>

\* proc once the walk of collectHashesFromDependencies from a root has
\* returned: the walk from the next router-dependent root, or, after the
\* last, the walks of collectDeps
AfterHashesRoot(p, top) ==
    LET q == [p EXCEPT !.collected =
                 Append(@, [file  |-> p.tree[p.root].file,
                            files |-> top.collected])]
    IN  IF NextRouterRoot(p.tree, p.root + 1) # 0
        THEN StartWalk(q, "collectHashes",
                       NextRouterRoot(p.tree, p.root + 1), "done")
        ELSE StartWalk(q, "collectDeps", NextRouterRoot(p.tree, 1), "done")

\* collectHashesFromDependencies returns collected
HashesReturn ==
    /\ proc.pc = "collectHashes"
    /\ LET top == proc.stack[Len(proc.stack)]
       IN  /\ top.entries = <<>>
           /\ proc' = IF Len(proc.stack) = 1
                      THEN AfterHashesRoot(proc, top)
                      ELSE [proc EXCEPT !.stack =
                              WithTop(Popped(@),
                                [proc.stack[Len(proc.stack) - 1] EXCEPT
                                    !.collected = MergeKeys(@, top.collected),
                                    !.entries = Tail(@)])]
    /\ UNCHANGED <<project, embedded, buildKeys, globalHashes, registry,
                   invocations, dispatched, thrown, now, verifier, overlays>>

\* !node.dependencies[dep].routerDependant && !visited.has(dep)
TakesDep(d, visited) == ~d.node.routerDependant /\ d.file \notin visited

\* collectDeps meets an entry, pushes it if it is to be taken, and calls
\* itself on the entry's node (part_001 lines 163-169)
DepsCall ==
    /\ proc.pc = "collectDeps"
    /\ LET top == proc.stack[Len(proc.stack)]
       IN  /\ top.entries # <<>>
           /\ proc' = IF Len(proc.stack) >= MaxStack
                      THEN [proc EXCEPT !.pc = "overflow"]
                      ELSE [proc EXCEPT
                              !.branchFiles =
                                  IF TakesDep(Head(top.entries), proc.visited)
                                  THEN Append(@, Head(top.entries).file)
                                  ELSE @,
                              !.visited =
                                  IF TakesDep(Head(top.entries), proc.visited)
                                  THEN @ \cup {Head(top.entries).file}
                                  ELSE @,
                              !.stack = Append(@, CollectFrame(
                                  Head(top.entries).node.dependencies))]
    /\ UNCHANGED <<project, embedded, buildKeys, globalHashes, registry,
                   invocations, dispatched, thrown, now, verifier, overlays>>

\* proc once collectDeps has returned to the loop over the tree
AfterDepsRoot(p) ==
    StartWalk([p EXCEPT !.branches =
                  Append(@, [file  |-> p.tree[p.root].file,
                             files |-> p.branchFiles])],
              "collectDeps", NextRouterRoot(p.tree, p.root + 1), "done")

\* collectDeps returns
DepsReturn ==
    /\ proc.pc = "collectDeps"
    /\ LET top == proc.stack[Len(proc.stack)]
       IN  /\ top.entries = <<>>
           /\ proc' = IF Len(proc.stack) = 1
                      THEN AfterDepsRoot(proc)
                      ELSE [proc EXCEPT !.stack =
                              WithTop(Popped(@),
                                [proc.stack[Len(proc.stack) - 1] EXCEPT
                                    !.entries = Tail(@)])]
    /\ UNCHANGED <<project, embedded, buildKeys, globalHashes, registry,
                   invocations, dispatched, thrown, now, verifier, overlays>>

(***************************************************************************)
(* SpecGraph: the analysis of every project of three files a.js, b.js and  *)
(* d/c.js with any call relation between them (cycles included) and any    *)
(* of them router-dependent, and of projects with a fourth file e.js that  *)
(* a.js reaches through b.js and through d/c.js; then the two collect      *)
(* walks from every router-dependent root.  A router-dependent file        *)
(* reaches the others through router call sites, another file through      *)
(* plain calls.                                                            *)
(***************************************************************************)

GraphFiles == <<FileA("/"), FileB("/"), FileC("/"), FileE("/")>>

\* the id and the function of the k-th file
GraphIds == <<"a", "b", "c", "e">>
GraphFns == <<"fa", "fb", "fc", "fe">>

\* window["routerForwardCall"]("<id>-<fn>-null-null", "<own id>")
GraphSite(k, own) ==
    Site(<<GraphIds[k], "-", GraphFns[k], "-", "null", "-", "null">>,
         <<GraphIds[own]>>, <<>>)

\* the targets of a file as an ascending list
TargetList(targets) ==
    SelectSeq(<<1, 2, 3, 4>>, LAMBDA t : t \in targets)

\* the k-th file: router-dependent or not, calling into the targets
GraphSrc(k, marker, targets) ==
    IF marker
    THEN Src(k, TRUE, <<GraphFns[k]>>, <<>>,
             [i \in 1..Len(TargetList(targets)) |->
                 GraphSite(TargetList(targets)[i], k)])
    ELSE Src(k, FALSE, <<GraphFns[k]>>,
             [i \in 1..Len(TargetList(targets)) |->
                 GraphFns[TargetList(targets)[i]]],
             <<>>)

\* the project of the first n files with the given marks and call relation
GraphProject(n, marks, edges) ==
    [sep   |-> "/",
     rand  |-> 0,
     files |-> SubSeq(GraphFiles, 1, n),
     src   |-> [f \in {GraphFiles[k] : k \in 1..n} |->
                   GraphSrc(FileIndex([files |-> GraphFiles], f),
                            marks[FileIndex([files |-> GraphFiles], f)],
                            edges[FileIndex([files |-> GraphFiles], f)])]]

\* every call relation on three files
ThreeFileProjects ==
    {GraphProject(3, marks, edges) :
        marks \in [1..3 -> BOOLEAN],
        edges \in {e \in [1..3 -> SUBSET (1..3)] : \A k \in 1..3 : k \notin e[k]}}

\* a.js calls into b.js and d/c.js, which call into each other or into e.js,
\* which may call back
FourFileProjects ==
    {GraphProject(4, <<TRUE, FALSE, cMark, FALSE>>, <<{2, 3}, bTo, cTo, eTo>>) :
        cMark \in BOOLEAN, bTo \in SUBSET {3, 4}, cTo \in SUBSET {2, 4},
        eTo \in SUBSET {1, 2}}

GraphProjects == ThreeFileProjects \cup FourFileProjects

ProcAtStart(unreadable) ==
    [pc |-> "read", unreadable |-> unreadable, root |-> 0, stack |-> <<>>,
     tree |-> <<>>, visited |-> {}, branchFiles |-> <<>>,
     collected |-> <<>>, branches |-> <<>>]

InitGraph ==
    /\ project \in GraphProjects
    /\ embedded = NoArtifacts
    /\ buildKeys = <<>>
    /\ globalHashes = NoHashes
    /\ registry = {}
    /\ invocations = <<>>
    /\ dispatched = <<>>
    /\ thrown = 0
    /\ now = 0
    /\ verifier = VerifierOff
    /\ overlays = 0
    /\ \E unreadable \in {{}, {FileB("/")}} : proc = ProcAtStart(unreadable)

NextGraph ==
    \/ ReadFiles
    \/ ProcessCall
    \/ ProcessSkip
    \/ ProcessReturn
    \/ HashesCall
    \/ HashesSkip
    \/ HashesReturn
    \/ DepsCall
    \/ DepsReturn

SpecGraph == InitGraph /\ [][NextGraph]_vars

\* the script runs on: a step that can be taken is taken
FairSpecGraph == SpecGraph /\ WF_vars(NextGraph)


(***************************************************************************)
(* Claims on the dependency graph                                          *)
(***************************************************************************)

\* the files file refers to: the ones processFile would recurse into from
\* an empty path
RefersTo(P, file) == SeqToSet(Candidates(P, file)) \ {NoFile, file}

\* the walks that were made from the router-dependent roots of the tree
WalkedRoots(walks) == {walks[i].file : i \in 1..Len(walks)}

\* C11: the graph construction and the two traversals of the tree terminate
\* for every project, cyclic call relations included: the recursion never
\* gets deeper than the number of files, and when every file is readable
\* the analysis ends with a tree that has an entry for every file and with
\* the collect walks from every router-dependent root completed
C11_GraphTerminates ==
    /\ [](/\ proc.pc # "overflow"
          /\ Len(proc.stack) <= Len(project.files))
    /\ (proc.unreadable = {})
          => <>(/\ proc.pc = "done"
                /\ Len(proc.tree) = Len(project.files)
                /\ WalkedRoots(proc.collected) = WalkedRoots(proc.branches)
                /\ WalkedRoots(proc.branches) =
                      {proc.tree[i].file : i \in RouterRootsFrom(proc.tree, 1)})

\* the analysis and the walks have ended on a project in which a.js and
\* b.js call each other, a.js, b.js and c.js form a longer cycle, and a.js
\* is router-dependent
C11_Witness ==
    /\ proc.pc = "done"
    /\ FileB("/") \in RefersTo(project, FileA("/"))
    /\ FileA("/") \in RefersTo(project, FileB("/"))
    /\ FileC("/") \in RefersTo(project, FileB("/"))
    /\ FileA("/") \in RefersTo(project, FileC("/"))
    /\ FileA("/") \in WalkedRoots(proc.branches)
    /\ Len(proc.tree) = Len(project.files)

\* the files of the entries of a dependencies object
EntryFiles(entries) == {entries[i].file : i \in 1..Len(entries)}

\* the node of file, reached along path (the files from the root down to
\* file), holds exactly the files that file refers to and that are not on
\* the path, each once, and so does every node below it
RECURSIVE BranchLocal(_, _, _, _)
BranchLocal(P, file, node, path) ==
    /\ EntryFiles(node.dependencies) = RefersTo(P, file) \ path
    /\ Cardinality(EntryFiles(node.dependencies)) = Len(node.dependencies)
    /\ \A i \in 1..Len(node.dependencies) :
          BranchLocal(P, node.dependencies[i].file,
                      node.dependencies[i].node,
                      path \cup {node.dependencies[i].file})

\* C17: in the tree of every root no file occurs twice along a path from
\* the root down, the root included, and a file that two sibling branches
\* refer to appears under each of them: the entries of a node are exactly
\* the files its file refers to that are not on the node's own path
C17_BranchLocalVisited ==
    \A r \in 1..Len(proc.tree) :
        BranchLocal(project, proc.tree[r].file, proc.tree[r].node,
                    {proc.tree[r].file})

\* the tree of a.js is finished and holds e.js under b.js and under d/c.js,
\* which both hold no entry for a.js although e.js refers to it
C17_Witness ==
    /\ Len(project.files) = 4
    /\ Len(proc.tree) >= 1
    /\ proc.tree[1].file = FileA("/")
    /\ FileA("/") \in RefersTo(project, FileE("/"))
    /\ \A i \in 1..Len(proc.tree[1].node.dependencies) :
          /\ FileE("/") \in EntryFiles(
                               proc.tree[1].node.dependencies[i].node.dependencies)
          /\ \A j \in 1..Len(proc.tree[1].node.dependencies[i].node.dependencies) :
                FileA("/") \notin EntryFiles(
                    proc.tree[1].node.dependencies[i].node.dependencies[j]
                        .node.dependencies)
    /\ Len(proc.tree[1].node.dependencies) = 2

\* the files of the roots of a tree
RootFiles(tree) == {tree[i].file : i \in 1..Len(tree)}

\* C14: when one project file cannot be read, analyzeDependencies does not
\* throw: it skips the file and ends with a tree for the remaining files
C14_UnreadableFileSkipped ==
    (proc.unreadable # {})
        => /\ proc.pc # "threw"
           /\ (proc.pc = "done"
                 => RootFiles(proc.tree) =
                       SeqToSet(project.files) \ proc.unreadable)

(***************************************************************************)
(* Claims on the files a key is folded over                                *)
(***************************************************************************)

\* the files of the nodes that are not router-dependent, anywhere below the
\* entries of a dependencies object
RECURSIVE NonRouterFilesBelow(_)
NonRouterFilesBelow(entries) ==
    UNION {(IF entries[i].node.routerDependant THEN {}
            ELSE {entries[i].file})
           \cup NonRouterFilesBelow(entries[i].node.dependencies) :
              i \in 1..Len(entries)}

\* the node of a root file in the tree
RootNode(tree, file) ==
    tree[CHOOSE i \in 1..Len(tree) : tree[i].file = file].node

\* C18: the hashes computeKeyForRouterFile folds for a router-dependent file
\* are those of exactly the files that are not router-dependent and occur
\* anywhere in its subtree, each once (never its own)
C18_FoldsNonRouterSubtree ==
    \A n \in 1..Len(buildKeys) :
        /\ SeqToSet(buildKeys[n].keys.collectedFiles) =
              NonRouterFilesBelow(
                  RootNode(embedded.tree, buildKeys[n].keys.routerFile)
                      .dependencies)
        /\ Cardinality(SeqToSet(buildKeys[n].keys.collectedFiles)) =
              Len(buildKeys[n].keys.collectedFiles)
        /\ buildKeys[n].keys.routerFile
              \notin SeqToSet(buildKeys[n].keys.collectedFiles)

(***************************************************************************)
(* SpecTable: a page whose live hash table changes between two identical   *)
(* calls.  The table starts with the hash of every shipped file, or with   *)
(* one file's hash not yet published.  A shipped call is made; once it has *)
(* run to its end the collaborator publishes a missing hash, or a file is  *)
(* modified and gets the hash of its new text, and the call is made again. *)
(***************************************************************************)

\* a.js calls into b.js, d/c.js or e.js; optionally a router-dependent
\* Xa.js, which calls into e.js, is listed before it
TableProjects ==
    {MkProject("/", aSites, bKind, cKind, eEmpty, xKind) :
        aSites \in {<<SiteB>>, <<SiteB, SiteC>>, <<SiteE>>},
        bKind \in {"leaf", "callsC"}, cKind \in {"leaf", "routerB"},
        eEmpty \in BOOLEAN, xKind \in {"none", "router"}}

\* the name the listener stores the hash of a shipped file under
LiveName(P, file) == ListenerFileName(ShippedUrl(P, file))

\* the table without the entry of one name
WithoutEntry(live, name) == [n \in DOMAIN live \ {name} |-> live[n]]

\* the tables a page can start with
StartTables(P) ==
    {AllShippedHashes(P)}
    \cup {WithoutEntry(AllShippedHashes(P), LiveName(P, P.files[i])) :
             i \in 1..Len(P.files)}

InitTable ==
    /\ project \in TableProjects
    /\ embedded = Artifacts(project)
    /\ buildKeys = encryptionKeys(project)
    /\ globalHashes \in StartTables(project)
    /\ registry = PageFunctions
    /\ invocations = <<>>
    /\ dispatched = <<>>
    /\ thrown = 0
    /\ now = 0
    /\ verifier = VerifierOff
    /\ overlays = 0
    /\ proc = NoProc

\* a rewritten call site of a.js runs
CallFirst ==
    /\ invocations = <<>>
    /\ \E c \in ShippedCalls(project) :
          /\ c.callee = <<"a">>
          /\ routerForwardCall(c.callString, c.callee, c.args)

\* the first call has run to its end and has not been repeated
BetweenCalls == Len(invocations) = 1 /\ invocations[1].pc = "done"

\* the same call site runs again after the first call has run to its end
CallAgain ==
    /\ BetweenCalls
    /\ routerForwardCall(invocations[1].callString, invocations[1].callee,
                         invocations[1].args)

\* the collaborator posts the hash of a shipped file it had not posted yet
PublishMissing ==
    \E i \in 1..Len(project.files) :
        /\ BetweenCalls
        /\ LiveName(project, project.files[i]) \notin DOMAIN globalHashes
        /\ HashSaved(ShippedUrl(project, project.files[i]),
                     Sha256(ShippedText(project, project.files[i])))

\* a shipped file is modified and the collaborator posts its new hash
PublishModified ==
    \E i \in 1..Len(project.files) :
        /\ BetweenCalls
        /\ globalHashes = invocations[1].hashes
        /\ LiveName(project, project.files[i]) \in DOMAIN globalHashes
        /\ HashSaved(ShippedUrl(project, project.files[i]),
                     TamperedHash(project, project.files[i]))

NextTable ==
    \/ CallFirst
    \/ CallAgain
    \/ PublishMissing
    \/ PublishModified
    \/ \E i \in 1..Len(invocations) : ImportKeyThen(i)
    \/ \E i \in 1..Len(invocations) : PlaintextThen(i)
    \/ \E i \in 1..Len(invocations) : CatchHandler(i)

SpecTable == InitTable /\ [][NextTable]_vars

(***************************************************************************)
(* Claims on the live hash table                                           *)
(***************************************************************************)

\* two tables differ in the hash stored under name and in nothing else
DifferOnlyIn(t1, t2, name) ==
    /\ DOMAIN t1 = DOMAIN t2
    /\ name \in DOMAIN t1
    /\ t1[name] # t2[name]
    /\ \A n \in DOMAIN t1 \ {name} : t1[n] = t2[n]

\* the files that are not router-dependent in the subtree of the
\* router-dependent file the build derived the n-th key for
KeyedSubtree(n) ==
    NonRouterFilesBelow(
        RootNode(embedded.tree, buildKeys[n].keys.routerFile).dependencies)

\* C12: two calls for the same router-dependent callee R that read live
\* tables differing only in the hash of a file d of R's subtree, d not
\* router-dependent, reconstruct different keys; a ciphertext valid under
\* the first table does not decrypt to its descriptor under the second and
\* the described call is not dispatched
C12_TamperSensitivity ==
    \A i, j \in 1..Len(invocations) :
        \A n \in 1..Len(buildKeys) :
            \A d \in KeyedSubtree(n) :
                (/\ buildKeys[n].baseName = FileKeyOf(invocations[i].callee)
                 /\ invocations[j].callee = invocations[i].callee
                 /\ DifferOnlyIn(invocations[i].hashes, invocations[j].hashes,
                                 LiveName(project, d)))
                => /\ ReconstructedKey(invocations[i])
                   /\ ReconstructedKey(invocations[j])
                   /\ invocations[i].key # invocations[j].key
                   /\ (/\ invocations[j].callString.key = invocations[i].key
                       /\ invocations[j].pc = "done")
                      => /\ invocations[j].plaintext
                               # invocations[j].callString.pt
                         /\ Len(DispatchesOf(j)) = 0

\* the branch files routerForwardCall collects for the callee of a call
BranchFilesOf(inv) ==
    SeqToSet(BranchOf(embedded, FileKeyOf(inv.callee)).branchFiles)

\* a branch file of the call had no hash in the table the call read
SomeHashMissing(inv) ==
    \E f \in BranchFilesOf(inv) : RouterFileName(f) \notin DOMAIN inv.hashes

\* the table the call read held the hash of every branch file as shipped
AllHashesCorrect(inv) ==
    \A f \in BranchFilesOf(inv) :
        LiveHash(inv.hashes, RouterFileName(f))
            = Sha256(ShippedText(project, f))

\* C19: a shipped call made while the hash of one of its branch files is
\* not published goes on past the hash fold (it neither throws nor stops
\* there) and dispatches nothing; the same call made again once the correct
\* hash of every branch file is published dispatches the described function
C19_MissingHashSkipped ==
    \A i, j \in 1..Len(invocations) :
        (/\ i < j
         /\ SomeHashMissing(invocations[i])
         /\ invocations[j].callString = invocations[i].callString
         /\ invocations[j].callee = invocations[i].callee)
        => /\ ReconstructedKey(invocations[i])
           /\ invocations[i].pc = "done"
           /\ Len(DispatchesOf(i)) = 0
           /\ (AllHashesCorrect(invocations[j]) /\ invocations[j].pc = "done")
              => /\ Len(DispatchesOf(j)) = 1
                 /\ DispatchesOf(j)[1].fn =
                       FunctionNameOf(FieldsOf(invocations[j].callString.pt))

\* the position in buildKeys of the key of base name fileKey, 0 when absent
BuildKeyIndex(fileKey) ==
    LET hits == {n \in 1..Len(buildKeys) : buildKeys[n].baseName = fileKey}
    IN  IF hits = {} THEN 0 ELSE CHOOSE n \in hits : TRUE

\* C26: the root routerForwardCall walks for a callee is the entry of the
\* file whose bare name is the file key, the file whose mask and IV mapping
\* the call uses; an entry whose path only ends with the file key is never
\* the one selected
C26_RootIsTheNamedFile ==
    \A i \in 1..Len(invocations) :
        LET fileKey == FileKeyOf(invocations[i].callee)
            r       == SelectedRoot(embedded, fileKey)
        IN  (MappingIndex(embedded, fileKey) # 0 /\ r # 0)
            => /\ RouterFileName(embedded.tree[r].file) = fileKey
               /\ BuildKeyIndex(fileKey) # 0
               /\ embedded.tree[r].file
                     = buildKeys[BuildKeyIndex(fileKey)].keys.routerFile

(***************************************************************************)
(* The earlier routerForwardCall (part_000): no visited set in the branch  *)
(* collection, no trailing arguments, the plaintext parsed as JSON.        *)
(***************************************************************************)

\* collectDeps(node) of part_000 lines 50-57, on the entries of
\* node.dependencies: every entry that is not router-dependent is pushed
RECURSIVE collectDepsEarlier(_, _)
collectDepsEarlier(dependencies, branchFiles) ==
    IF dependencies = <<>> THEN branchFiles
    ELSE collectDepsEarlier(Tail(dependencies),
             collectDepsEarlier(Head(dependencies).node.dependencies,
                 IF ~Head(dependencies).node.routerDependant
                 THEN Append(branchFiles, Head(dependencies).file)
                 ELSE branchFiles))

\* part_000 lines 44-60: branchFiles for the root selected with endsWith
BranchOfEarlier(E, fileKey) ==
    IF SelectedRoot(E, fileKey) = 0 THEN <<>>
    ELSE collectDepsEarlier(
             E.tree[SelectedRoot(E, fileKey)].node.dependencies,
             IF ~E.tree[SelectedRoot(E, fileKey)].node.routerDependant
             THEN <<E.tree[SelectedRoot(E, fileKey)].file>>
             ELSE <<>>)

\* part_000 lines 67-85: the fold over branchFiles and the XOR with the mask
EarlierKey(E, m, branchFiles, live) ==
    LET x  == FoldLiveHashes(branchFiles, live, ZeroKey)
        mk == hexStringToUint8Array(E.ivs[m].mask)
        k  == IF x.ok /\ mk.ok THEN xorBuffers(x.val, mk.val)
              ELSE [ok |-> FALSE, val |-> <<>>]
    IN  IF ~k.ok
        THEN [status |-> "throw", key |-> <<>>, branchFiles |-> <<>>]
        ELSE [status      |-> "importKey",
              key         |-> uint8ArrayToHexString(k.val),
              branchFiles |-> branchFiles]

\* the synchronous part of routerForwardCall of part_000 (lines 17-89)
RouterSyncEarlier(E, live, callee) ==
    IF MappingIndex(E, FileKeyOf(callee)) = 0
    THEN [status |-> "noMapping", key |-> <<>>, branchFiles |-> <<>>]
    ELSE IF E.ivs[MappingIndex(E, FileKeyOf(callee))].mask = <<>>
    THEN [status |-> "noMask", key |-> <<>>, branchFiles |-> <<>>]
    ELSE IF BranchOfEarlier(E, FileKeyOf(callee)) = <<>>
    THEN [status |-> "noBranch", key |-> <<>>, branchFiles |-> <<>>]
    ELSE EarlierKey(E, MappingIndex(E, FileKeyOf(callee)),
                    BranchOfEarlier(E, FileKeyOf(callee)), live)

\* routerForwardCall(callString, callee) of part_000 up to its return
routerForwardCallEarlier(callString, callee) ==
    \E r \in {RouterSyncEarlier(embedded, globalHashes, callee)} :
        /\ invocations' = Append(invocations,
                                 NewInvocation(callString, callee, <<>>, r))
        /\ thrown' = IF r.status = "throw" THEN thrown + 1 ELSE thrown
        /\ UNCHANGED <<proc, project, embedded, buildKeys, globalHashes,
                       registry, dispatched, now, verifier, overlays>>

\* JSON.parse(plaintext) of part_000 line 124 returns a value
JsonParses(text) ==
    /\ Len(text) = 1
    /\ text[1] \in (NumericLiterals \ {"07"}) \cup {"true", "false", "{}", "null"}

\* the second then of part_000 (lines 119-137) on invocation i: a plaintext
\* that is no JSON is logged; null has no property functionName (a
\* TypeError for the chain's catch); any other value of the model has no
\* functionName, and window[undefined] is no function
EarlierPlaintextThen(i) ==
    /\ i \in 1..Len(invocations)
    /\ invocations[i].pc = "decrypted"
    /\ invocations' = [invocations EXCEPT
          ![i].pc = IF invocations[i].plaintext = <<"null">> THEN "rejected"
                    ELSE "done",
          ![i].outcome = IF ~JsonParses(invocations[i].plaintext) THEN "rejected"
                         ELSE IF invocations[i].plaintext = <<"null">> THEN "none"
                         ELSE "noFunction"]
    /\ UNCHANGED <<proc, project, embedded, buildKeys, globalHashes, registry,
                   dispatched, thrown, now, verifier, overlays>>

(***************************************************************************)
(* SpecEarlier: a build, then one call of the earlier routerForwardCall    *)
(* for a rewritten call site, every shipped hash being published.  No file *)
(* of the projects is empty and no file name ends with another's.          *)
(***************************************************************************)

EarlierProjects ==
    {MkProject(s, aSites, bKind, cKind, FALSE, "none") :
        s \in {"\\", "/"}, aSites \in ASiteLists, bKind \in BKinds,
        cKind \in CKinds}

InitEarlier ==
    /\ project \in EarlierProjects
    /\ embedded = Artifacts(project)
    /\ buildKeys = encryptionKeys(project)
    /\ globalHashes = AllShippedHashes(project)
    /\ registry = PageFunctions
    /\ invocations = <<>>
    /\ dispatched = <<>>
    /\ thrown = 0
    /\ now = 0
    /\ verifier = VerifierOff
    /\ overlays = 0
    /\ proc = NoProc

CallEarlier ==
    /\ Len(invocations) < MaxInvocations
    /\ \E c \in ShippedCalls(project) :
          routerForwardCallEarlier(c.callString, c.callee)

NextEarlier ==
    \/ CallEarlier
    \/ \E i \in 1..Len(invocations) : ImportKeyThen(i)
    \/ \E i \in 1..Len(invocations) : EarlierPlaintextThen(i)
    \/ \E i \in 1..Len(invocations) : CatchHandler(i)

SpecEarlier == InitEarlier /\ [][NextEarlier]_vars

\* C24: the earlier routerForwardCall folds each file of the branch that is
\* not router-dependent once, and the key it reconstructs is the key of the
\* build, also when a file is reached along two paths of the tree
C24_EarlierVariantKey ==
    \A i \in 1..Len(invocations) :
        LET inv    == invocations[i]
            branch == BranchOfEarlier(embedded, FileKeyOf(inv.callee))
        IN  ReconstructedKey(inv)
            => /\ \A m, n \in 1..Len(branch) : branch[m] = branch[n] => m = n
               /\ inv.key = BuildKeyFor(FileKeyOf(inv.callee))

(***************************************************************************)
(* SpecPage: a built page at work.  The rewritten call site of a.js and a  *)
(* call with a string the build never wrote run and overlap, the hashing   *)
(* collaborator, which has posted every hash but that of b.js, posts the   *)
(* hash of b.js (as shipped, modified, or of a second script named b.js),  *)
(* and the verifier's first poll runs.                                     *)
(***************************************************************************)

\* how many calls of routerForwardCall a run makes
MaxCalls == 2

\* what the constant precomputedHashesBase64 of the page can hold: the text
\* the build wrote, the encoding of an empty object, a text that is no base64
ConstantKinds == {"built", "emptyObject", "notBase64"}

PrecomputedConstant(table, kind) ==
    [kind |-> kind, table |-> IF kind = "built" THEN table ELSE <<>>]

\* decodePrecomputedHashes(encodedStr): JSON.parse(atob(encodedStr)), and
\* the empty object when either throws
decodePrecomputedHashes(encodedStr) ==
    IF encodedStr.kind = "notBase64" THEN <<>> ELSE encodedStr.table

\* the page's constants; the constant never changes, so the table
\* verifyHashes decodes from it stands in embedded.precomputed
PageArtifacts(E, kind) ==
    [E EXCEPT !.precomputed =
                 decodePrecomputedHashes(PrecomputedConstant(@, kind))]

\* a.js calls into b.js; both separators
PageProjects ==
    {MkProject(s, <<SiteB>>, "leaf", "leaf", FALSE, "none") :
        s \in {"\\", "/"}}

\* the URL of a second script named b.js
OtherUrl(P) == <<"/", "lib">> \o ShippedUrl(P, FileB(P.sep))

\* the calls made on the page
PageCalls(P) ==
    ShippedCalls(P)
    \cup {[callString |-> PlainArg(SiteB.desc), callee |-> <<"a">>,
           args |-> <<>>]}

InitPage ==
    /\ project \in PageProjects
    /\ \E kind \in ConstantKinds :
          embedded = PageArtifacts(Artifacts(project), kind)
    /\ buildKeys = encryptionKeys(project)
    /\ globalHashes = WithoutEntry(AllShippedHashes(project),
                                   LiveName(project, FileB(project.sep)))
    /\ registry = PageFunctions
    /\ invocations = <<>>
    /\ dispatched = <<>>
    /\ thrown = 0
    /\ now = 0
    /\ verifier = [VerifierOff EXCEPT !.pc = "waiting"]
    /\ overlays = 0
    /\ proc = NoProc

CallPage ==
    /\ Len(invocations) < MaxCalls
    /\ \E c \in PageCalls(project) :
          routerForwardCall(c.callString, c.callee, c.args)

\* the collaborator posts the hash of b.js, not posted yet
PublishShipped ==
    /\ LiveName(project, FileB(project.sep)) \notin DOMAIN globalHashes
    /\ HashSaved(ShippedUrl(project, FileB(project.sep)),
                 Sha256(ShippedText(project, FileB(project.sep))))

\* b.js is modified and loaded again, or a second script named b.js is
\* loaded: the collaborator posts its hash
PublishAgain ==
    /\ LiveHash(globalHashes, LiveName(project, FileB(project.sep)))
          = Sha256(ShippedText(project, FileB(project.sep)))
    /\ \/ HashSaved(ShippedUrl(project, FileB(project.sep)),
                    TamperedHash(project, FileB(project.sep)))
       \/ HashSaved(OtherUrl(project), Sha256(ShippedText(project,
                                                  FileE(project.sep))))

NextPage ==
    \/ CallPage
    \/ PublishShipped
    \/ PublishAgain
    \/ check
    \/ \E i \in 1..Len(invocations) : ImportKeyThen(i)
    \/ \E i \in 1..Len(invocations) : PlaintextThen(i)
    \/ \E i \in 1..Len(invocations) : CatchHandler(i)

SpecPage == InitPage /\ [][NextPage]_vars

\* C22: the live hash table is append-only: once a hash is stored under a
\* file name no later message changes or removes that entry, also when two
\* messages carry URLs that end in the same file name
C22_LiveTableAppendOnly ==
    [][\A name \in DOMAIN globalHashes :
          /\ name \in DOMAIN globalHashes'
          /\ globalHashes'[name] = globalHashes[name]]_vars

\* C25: routerForwardCall, verifyHashes and the message listener turn the
\* build-time path of a shipped file into the same lookup key, its last
\* path segment, for paths written with backslashes and with slashes
C25_SameLookupKey ==
    verifier.ranVerify
    => \A i \in 1..Len(project.files) :
          LET path == RecompiledPath(project, project.files[i])
          IN  /\ RouterFileName(path) = PathBasename(project, path)
              /\ VerifierFileName(path) = RouterFileName(path)
              /\ ListenerFileName(ShippedUrl(project, project.files[i]))
                    = RouterFileName(path)

\* C29: verifyHashes never reports that all hashes match without having
\* compared one: when the precomputed table cannot be decoded or is empty
\* it shows the overlay
C29_NoSuccessWithoutComparison ==
    (verifier.ranVerify /\ verifier.checked = 0) => overlays > 0

\* what routerForwardCall is given and reads: its arguments and the live
\* table at the time of the call
SameInputs(inv1, inv2) ==
    /\ inv1.callString = inv2.callString
    /\ inv1.callee = inv2.callee
    /\ inv1.args = inv2.args
    /\ inv1.hashes = inv2.hashes

\* how the synchronous part of an invocation ended
SyncStatus(inv) ==
    IF inv.status \in {"noMapping", "noMask", "noBranch", "throw"}
    THEN inv.status ELSE "importKey"

\* the functions invocation i called, with their parameters
CallsOf(i) ==
    [n \in 1..Len(DispatchesOf(i)) |->
        [fn |-> DispatchesOf(i)[n].fn, params |-> DispatchesOf(i)[n].params]]

\* two invocations given the same arguments under the same live table end
\* their synchronous part alike, import the same key and, once both have
\* run to their end, have called the same function with the same parameters
HistoryIndependent ==
    \A i, j \in 1..Len(invocations) :
        SameInputs(invocations[i], invocations[j])
        => /\ SyncStatus(invocations[i]) = SyncStatus(invocations[j])
           /\ invocations[i].key = invocations[j].key
           /\ (invocations[i].pc = "done" /\ invocations[j].pc = "done")
                 => CallsOf(i) = CallsOf(j)

\* no step changes the embedded constants, and a step that changes the live
\* table is a step of the listener: it starts or advances no invocation and
\* is no step of the verifier
SharedDataUnchanged ==
    /\ embedded' = embedded
    /\ globalHashes' # globalHashes
       => /\ invocations' = invocations
          /\ dispatched' = dispatched
          /\ verifier' = verifier
          /\ overlays' = overlays

\* C21: routerForwardCall and verifyHashes leave the embedded tree, the IV
\* mapping, the precomputed table and the live table unchanged, the live
\* table being written by the message listener only; the outcome of an
\* invocation does not depend on the invocations that ran before it
C21_ReadOnlySharedData ==
    []HistoryIndependent /\ [][SharedDataUnchanged]_vars

\* the same call site ran twice under the same live table, the verifier
\* compared the hashes, and both calls invoked the target function
C21_Witness ==
    /\ Len(invocations) = 2
    /\ SameInputs(invocations[1], invocations[2])
    /\ invocations[1].outcome = "dispatched"
    /\ invocations[2].outcome = "dispatched"
    /\ verifier.ranVerify

\* the call failed at some stage: before the key import, at the IV lookup,
\* at the decryption, at the parsing of the descriptor or at the lookup of
\* the function
FailedCall(inv) ==
    \/ SyncStatus(inv) # "importKey"
    \/ inv.status \in {"noIv", "decryptFailed"}
    \/ inv.outcome \in {"rejected", "noFunction", "caught"}

\* C27: a call of routerForwardCall invokes at most one registered
\* function, and only after the key import and the decryption of that same
\* call have completed; a call that fails at any stage invokes none
C27_AtMostOneDispatch ==
    \A i \in 1..Len(invocations) :
        /\ Len(DispatchesOf(i)) <= 1
        /\ Len(DispatchesOf(i)) = 1
           => /\ invocations[i].pc = "done"
              /\ invocations[i].status = "decrypted"
              /\ invocations[i].callString.kind = "ct"
              /\ invocations[i].key = invocations[i].callString.key
              /\ invocations[i].plaintext = invocations[i].callString.pt
        /\ FailedCall(invocations[i]) => Len(DispatchesOf(i)) = 0

\* two calls have run to their end: one invoked its function once, the
\* other failed at the decryption and invoked none
C27_Witness ==
    \E i, j \in 1..Len(invocations) :
        /\ invocations[i].pc = "done"
        /\ invocations[j].pc = "done"
        /\ Len(DispatchesOf(i)) = 1
        /\ invocations[j].status = "decryptFailed"
        /\ Len(DispatchesOf(j)) = 0

\* the key routerForwardCall reconstructs from the table the call was made
\* under
CallTimeKey(inv) == RouterSync(embedded, inv.hashes, inv.callee).key

\* C28: the key of an invocation is fixed by the live table at the time of
\* the call: it is the key reconstructed from that table, and the
\* decryption succeeds exactly when that key is the key of the ciphertext,
\* whatever was published before the decryption ran and whatever table an
\* overlapping invocation was called under
C28_KeyFixedAtCallTime ==
    \A i \in 1..Len(invocations) :
        \E key \in {CallTimeKey(invocations[i])} :
            /\ invocations[i].key = key
            /\ invocations[i].status \in {"decrypted", "decryptFailed"}
               => ((/\ invocations[i].status = "decrypted"
                    /\ invocations[i].plaintext = invocations[i].callString.pt)
                   <=> invocations[i].callString.key = key)

\* two calls of the same call site: the first was made while the hash of
\* b.js was missing and its decryption failed; the hash was published after
\* that call, and the second call, made under the complete table, invoked
\* the function
C28_Witness ==
    /\ Len(invocations) = 2
    /\ invocations[1].callString = invocations[2].callString
    /\ invocations[1].hashes # globalHashes
    /\ invocations[1].status = "decryptFailed"
    /\ invocations[2].hashes = globalHashes
    /\ invocations[2].outcome = "dispatched"
    /\ invocations[1].key # invocations[2].key

(***************************************************************************)
(* SpecXor: the fold xorResult = xorBuffers(xorResult, hash) over a list   *)
(* of 32-byte hashes, run in the order of the list and in a permuted       *)
(* order, one hash at a time.                                              *)
(*                                                                         *)
(* proc is [pc, hashes, order, done, xorResult, permuted]: order the       *)
(* permutation, done the number of hashes folded, xorResult and permuted   *)
(* the two accumulators.                                                   *)
(***************************************************************************)

\* the length of the lists of hashes
MaxHashes == 3

\* 32-byte values: digests of file texts and random bytes
HashValues ==
    {hexStringToUint8Array(Sha256(t)).val : t \in 0..2}
    \cup {RandomMask(NoProject, 1), [i \in 1..KeyBytes |-> ByteRange - 1]}

\* the permutations of 1..n
Orders(n) ==
    {f \in [1..n -> 1..n] : \A i, j \in 1..n : f[i] = f[j] => i = j}

InitXor ==
    /\ project = NoProject
    /\ embedded = NoArtifacts
    /\ buildKeys = <<>>
    /\ globalHashes = NoHashes
    /\ registry = {}
    /\ invocations = <<>>
    /\ dispatched = <<>>
    /\ thrown = 0
    /\ now = 0
    /\ verifier = VerifierOff
    /\ overlays = 0
    /\ \E n \in 0..MaxHashes :
          \E hashes \in [1..n -> HashValues], order \in Orders(n) :
              proc = [pc |-> "fold", hashes |-> hashes, order |-> order,
                      done |-> 0, xorResult |-> ZeroKey, permuted |-> ZeroKey]

\* one pass of the loop in each of the two orders
FoldNext ==
    /\ proc.pc = "fold"
    /\ proc.done < Len(proc.hashes)
    /\ proc' = [proc EXCEPT
          !.done      = @ + 1,
          !.xorResult = xorBuffers(@, proc.hashes[proc.done + 1]).val,
          !.permuted  = xorBuffers(@, proc.hashes[proc.order[proc.done + 1]]).val]
    /\ UNCHANGED <<project, embedded, buildKeys, globalHashes, registry,
                   invocations, dispatched, thrown, now, verifier, overlays>>

NextXor == FoldNext

SpecXor == InitXor /\ [][NextXor]_vars

\* C13: folding a list of 32-byte hashes with xorBuffers from the all-zero
\* accumulator gives the same accumulator for every permutation of the list
C13_XorOrderIndependent ==
    (proc.done = Len(proc.hashes)) => proc.xorResult = proc.permuted

\* three different hashes have been folded in the order of the list and in
\* another order
C13_Witness ==
    /\ proc.done = 3
    /\ Len(proc.hashes) = 3
    /\ proc.order # <<1, 2, 3>>
    /\ Cardinality(SeqToSet(proc.hashes)) = 3
    /\ proc.xorResult # ZeroKey

(***************************************************************************)
(* Call Encryptor on the text of the files.                                *)
(*                                                                         *)
(* A text is a sequence of symbols: the quotes, "$", "&", BQ, ",", ")",    *)
(* " " and "\n" are one character each, every other symbol is a run of     *)
(* characters with none of them ("window[", "routerForwardCall", "](", a   *)
(* name, a number).  The base64 text of a ciphertext is one symbol.        *)
(***************************************************************************)

DQ == "\""
SQ == "'"
\* the grave accent (U+0060)
BQ == "grave"
QuoteSymbols == {DQ, SQ}

\* \s
IsSpace(c) == c \in {" ", "\n"}

\* \s* from position i: the position of the first symbol after the run
RECURSIVE SkipSpace(_, _)
SkipSpace(s, i) ==
    IF i <= Len(s) /\ IsSpace(s[i]) THEN SkipSpace(s, i + 1) ELSE i

\* the one symbol sym at position i: the position after it, 0 on failure
SymbolAt(s, i, sym) ==
    IF i >= 1 /\ i <= Len(s) /\ s[i] = sym THEN i + 1 ELSE 0

\* ["']([^"']+)["'] at position i: the position after the closing quote,
\* 0 on failure; the group is SubSeq(s, i + 1, result - 2)
QuotedAt(s, i) ==
    IF i < 1 \/ i > Len(s) \/ s[i] \notin QuoteSymbols THEN 0
    ELSE LET closing == {j \in (i + 1)..Len(s) : s[j] \in QuoteSymbols}
         IN  IF closing = {} THEN 0
             ELSE LET j == CHOOSE c \in closing : \A d \in closing : c <= d
                  IN  IF j = i + 1 THEN 0 ELSE j + 1

\* the last position of the line that position i is on
LineEnd(s, i) ==
    LET breaks == {j \in i..Len(s) : s[j] = "\n"}
    IN  IF breaks = {} THEN Len(s)
        ELSE (CHOOSE b \in breaks : \A d \in breaks : b <= d) - 1

\* (,.*)?\) at position i: the position of the closing parenthesis, 0 on
\* failure; .* is greedy and stays on the line
TailAt(s, i) ==
    IF i < 1 \/ i > Len(s) THEN 0
    ELSE IF s[i] = ","
    THEN LET closers == {j \in (i + 1)..LineEnd(s, i) : s[j] = ")"}
         IN  IF closers = {} THEN 0
             ELSE CHOOSE c \in closers : \A d \in closers : d <= c
    ELSE IF s[i] = ")" THEN i
    ELSE 0

NoMatch == [ok |-> FALSE]

\* the match from the end of the second literal on: group 3 and the end
MatchTail(s, i, q1, q2, t) ==
    IF t = 0 THEN NoMatch
    ELSE [ok    |-> TRUE,
          first |-> i,
          last  |-> t,
          full  |-> SubSeq(s, i, t),
          p1    |-> SubSeq(s, q1 + 1, QuotedAt(s, q1) - 2),
          p2    |-> SubSeq(s, q2 + 1, QuotedAt(s, q2) - 2),
          extra |-> SubSeq(s, SkipSpace(s, QuotedAt(s, q2)), t - 1)]

\* the match from the end of the first literal on
MatchSecond(s, i, q1, c) ==
    IF c = 0 \/ QuotedAt(s, SkipSpace(s, c)) = 0 THEN NoMatch
    ELSE MatchTail(s, i, q1, SkipSpace(s, c),
             TailAt(s, SkipSpace(s, QuotedAt(s, SkipSpace(s, c)))))

\* the match from the opening parenthesis on, q1 the first literal's quote
MatchFirst(s, i, q1) ==
    IF QuotedAt(s, q1) = 0 THEN NoMatch
    ELSE MatchSecond(s, i, q1,
             SymbolAt(s, SkipSpace(s, QuotedAt(s, q1)), ","))

\* window\[\s*["']routerForwardCall["']\s*\]\( at position i: the position
\* after the opening parenthesis, 0 on failure
HeadAt(s, i) ==
    LET q == SkipSpace(s, SymbolAt(s, i, "window["))
    IN  IF SymbolAt(s, i, "window[") = 0 THEN 0
        ELSE IF QuotedAt(s, q) # q + 3 THEN 0
        ELSE IF s[q + 1] # "routerForwardCall" THEN 0
        ELSE SymbolAt(s, SkipSpace(s, q + 3), "](")

\* one match of routerCallRegex (line 815) starting at position i
MatchAt(s, i) ==
    IF HeadAt(s, i) = 0 THEN NoMatch
    ELSE MatchFirst(s, i, SkipSpace(s, HeadAt(s, i)))

\* Array.from(content.matchAll(routerCallRegex)) from position i on
RECURSIVE MatchAllFrom(_, _)
MatchAllFrom(s, i) ==
    IF i > Len(s) THEN <<>>
    ELSE LET m == MatchAt(s, i)
         IN  IF m.ok THEN <<m>> \o MatchAllFrom(s, m.last + 1)
             ELSE MatchAllFrom(s, i + 1)

matchAll(s) == MatchAllFrom(s, 1)

\* String.prototype.indexOf: the first position of t in s, 0 when absent
IndexOfText(s, t) ==
    LET hits == {i \in 1..(Len(s) - Len(t) + 1) : SubSeq(s, i, i + Len(t) - 1) = t}
    IN  IF hits = {} THEN 0 ELSE CHOOSE i \in hits : \A j \in hits : i <= j

\* GetSubstitution for a string pattern: $$, $&, $ with a grave accent and
\* $ with a quote in the replacement are patterns; there are no captures,
\* so $1 stays as it is
RECURSIVE GetSubstitution(_, _, _, _, _)
GetSubstitution(replacement, k, matched, before, after) ==
    IF k > Len(replacement) THEN <<>>
    ELSE IF replacement[k] = "$" /\ k < Len(replacement)
    THEN IF replacement[k + 1] = "$"
         THEN <<"$">> \o GetSubstitution(replacement, k + 2, matched, before, after)
         ELSE IF replacement[k + 1] = "&"
         THEN matched \o GetSubstitution(replacement, k + 2, matched, before, after)
         ELSE IF replacement[k + 1] = BQ
         THEN before \o GetSubstitution(replacement, k + 2, matched, before, after)
         ELSE IF replacement[k + 1] = SQ
         THEN after \o GetSubstitution(replacement, k + 2, matched, before, after)
         ELSE <<"$">> \o GetSubstitution(replacement, k + 1, matched, before, after)
    ELSE <<replacement[k]>>
         \o GetSubstitution(replacement, k + 1, matched, before, after)

\* the replacement inserted at position i of s in place of pattern
ReplaceAt(s, i, pattern, replacement) ==
    SubSeq(s, 1, i - 1)
    \o GetSubstitution(replacement, 1, pattern, SubSeq(s, 1, i - 1),
           SubSeq(s, i + Len(pattern), Len(s)))
    \o SubSeq(s, i + Len(pattern), Len(s))

\* String.prototype.replace(pattern, replacement), both strings: the first
\* occurrence of pattern is replaced
StringReplace(s, pattern, replacement) ==
    IF IndexOfText(s, pattern) = 0 THEN s
    ELSE ReplaceAt(s, IndexOfText(s, pattern), pattern, replacement)

\* the base64 text of a ciphertext, as one symbol: different for different
\* ciphertexts
Base64Symbol(ct) == ToString(<<ct.iv, ct.pt, ct.key>>)

\* line 834: window["routerForwardCall"]("${result}", "${p2}"${extraParams})
Replacement(result, p2, extraParams) ==
    <<"window[", DQ, "routerForwardCall", DQ, "](", DQ, result, DQ, ",", " ", DQ>>
    \o p2 \o <<DQ>> \o extraParams \o <<")">>

(***************************************************************************)
(* SpecRecompile: recompileRouterFiles and the mapping loop after it, one  *)
(* step at a time, on projects whose a.js is given as text.                *)
(*                                                                         *)
(* proc is [pc, fileContents, names, k, routerFile, matches, m,            *)
(* modifiedContent, pending, draws, encryptedCalls, written, events,       *)
(* mapping]: names is Object.keys(encryptionKeys) and k the position of    *)
(* the outer loop; m is the number of matches the inner loop has taken;    *)
(* pending holds the encryptText calls that have not resolved; draws is    *)
(* the number of IVs drawn for the file; encryptedCalls[k] are the entries *)
(* of encryptionKeys[names[k]].encryptedCalls in key order; written holds  *)
(* the texts in the recompiled folder; events is the history of the        *)
(* encryptions started and resolved.                                       *)
(***************************************************************************)

\* the number of lines of a.js
MaxLines == 3

CallPrefix(q) == <<"window[", q, "routerForwardCall", q, "](">>

\* window["routerForwardCall"]("<desc>", "<callee>"<extra>);
CallLine(q, desc, callee, extra) ==
    CallPrefix(q) \o <<q>> \o desc \o <<q, ",", " ", q>> \o callee \o <<q>>
    \o extra \o <<")", ";">>

\* the lines a.js is made of: a plain statement and call sites without
\* trailing arguments, with a number, with '$' + n and with "$$"
LineTexts ==
    {<<"fa", "(", ")", ";">>,
     CallLine(DQ, SiteB.desc, <<"a">>, <<>>),
     CallLine(DQ, SiteB.desc, <<"a">>, <<",", " ", "15">>),
     CallLine(DQ, SiteC.desc, <<"a">>,
              <<",", " ", SQ, "$", SQ, " ", "+", " ", "n">>),
     CallLine(DQ, SiteC.desc, <<"a">>, <<",", " ", DQ, "$", "$", DQ>>)}

\* the lines joined, each followed by a line break
RECURSIVE JoinLines(_)
JoinLines(lines) ==
    IF lines = <<>> THEN <<>>
    ELSE Head(lines) \o <<"\n">> \o JoinLines(Tail(lines))

\* the call sites of a text as the analysis records them
SitesOf(text) ==
    [n \in 1..Len(matchAll(text)) |->
        Site(matchAll(text)[n].p1, matchAll(text)[n].p2, <<>>)]

\* the text of a file that is not given as text: its call sites, one a line
TextOfSites(sites) ==
    JoinLines([n \in 1..Len(sites) |->
                  CallLine(SQ, sites[n].desc, sites[n].callee, <<>>)])

\* a.js with the given text, b.js, d/c.js and e.js
TextProject(aText, bKind) ==
    [sep   |-> "/",
     rand  |-> 0,
     files |-> <<FileA("/"), FileB("/"), FileC("/"), FileE("/")>>,
     src   |-> [f \in {FileA("/"), FileB("/"), FileC("/"), FileE("/")} |->
                   IF f = FileA("/")
                   THEN Src(1, SitesOf(aText) # <<>>, <<"fa">>, <<>>,
                            SitesOf(aText))
                   ELSE IF f = FileB("/") THEN SrcB(bKind)
                   ELSE IF f = FileC("/") THEN SrcC("leaf")
                   ELSE SrcE(FALSE)]]

\* fileContents of the build
TextContents(P, aText) ==
    [f \in SeqToSet(P.files) |->
        IF f = FileA("/") THEN aText ELSE TextOfSites(P.src[f].sites)]

\* the project with a Router.js in its root folder; getJsFiles lists the
\* folder by name, and "Router.js" comes before every other name of the
\* family
FileRouter(s) == <<s>> \o RouterJsName

WithRouterJs(P) ==
    [P EXCEPT
        !.files = <<FileRouter(P.sep)>> \o @,
        !.src   = [f \in SeqToSet(P.files) \cup {FileRouter(P.sep)} |->
                      IF f = FileRouter(P.sep)
                      THEN Src(6, FALSE, <<"routerForwardCall">>, <<>>, <<>>)
                      ELSE P.src[f]]]

\* the projects built: a.js with the given text, with and without Router.js
TextProjects(aText) ==
    {TextProject(aText, bKind) : bKind \in {"leaf", "routerC"}}
    \cup {WithRouterJs(TextProject(aText, bKind)) : bKind \in {"leaf", "routerC"}}

ATexts ==
    UNION {{JoinLines(lines) : lines \in [1..n -> LineTexts]} : n \in 1..MaxLines}

\* recompileRouterFiles is called: copyFolderRecursive has copied every
\* file and encryptionKeys holds the keys
ProcAtRecompile(P, contents) ==
    [pc              |-> "file",
     fileContents    |-> contents,
     names           |-> EncryptionKeyNames(P),
     k               |-> 1,
     routerFile      |-> NoFile,
     matches         |-> <<>>,
     m               |-> 0,
     modifiedContent |-> <<>>,
     pending         |-> <<>>,
     draws           |-> 0,
     encryptedCalls  |-> [n \in 1..Len(EncryptionKeyNames(P)) |-> <<>>],
     written         |-> contents,
     events          |-> <<>>,
     mapping         |-> <<>>]

InitRecompile ==
    /\ \E aText \in ATexts :
          \E P \in TextProjects(aText) :
              /\ project = P
              /\ proc = ProcAtRecompile(P, TextContents(P, aText))
    /\ embedded = NoArtifacts
    /\ buildKeys = encryptionKeys(project)
    /\ globalHashes = NoHashes
    /\ registry = {}
    /\ invocations = <<>>
    /\ dispatched = <<>>
    /\ thrown = 0
    /\ now = 0
    /\ verifier = VerifierOff
    /\ overlays = 0

\* the outer loop takes the next base name (lines 800-817)
EnterFile(p, routerFile) ==
    [p EXCEPT !.pc = "match",
              !.routerFile = routerFile,
              !.matches = matchAll(p.fileContents[routerFile]),
              !.m = 0,
              !.draws = 0,
              !.modifiedContent = p.fileContents[routerFile],
              !.encryptedCalls[p.k] = <<>>]

RecompileFile ==
    /\ proc.pc = "file"
    /\ proc.k <= Len(proc.names)
    /\ \E r \in {EnterFile(proc, FindRouterFile(project, proc.names[proc.k]))} :
          proc' = r
    /\ UNCHANGED <<project, embedded, buildKeys, globalHashes, registry,
                   invocations, dispatched, thrown, now, verifier, overlays>>

\* a loop that takes the next match while an encryption is outstanding
NotAwaited(p) == p.pc \in {"match", "await"}

\* the inner loop takes a match only when the awaited encryptText of the
\* match before has resolved (line 824)
Awaited(p) == p.pc = "match"

\* line 824, up to the first await of encryptText: the IV is drawn
EncryptStart ==
    /\ Awaited(proc)
    /\ proc.m < Len(proc.matches)
    /\ proc' = [proc EXCEPT
          !.pc      = "await",
          !.m       = @ + 1,
          !.draws   = @ + 1,
          !.pending = Append(@, [m  |-> proc.m + 1,
                                 iv |-> RandomIv(project,
                                            FileIndex(project, proc.routerFile),
                                            proc.draws + 1)]),
          !.events  = Append(@, <<"start", proc.k, proc.m + 1>>)]
    /\ UNCHANGED <<project, embedded, buildKeys, globalHashes, registry,
                   invocations, dispatched, thrown, now, verifier, overlays>>

\* lines 825-835 for the match e.m whose encryption has resolved with ct
AfterEncrypt(p, e, ct, rest) ==
    [p EXCEPT
        !.pc = IF rest = <<>> THEN "match" ELSE "await",
        !.pending = rest,
        !.encryptedCalls[p.k] =
            Append(@, [original        |-> p.matches[e.m].p1,
                       iv              |-> e.iv,
                       ciphertext      |-> ct,
                       encryptedResult |-> Base64Symbol(ct)]),
        !.modifiedContent =
            StringReplace(@, p.matches[e.m].full,
                Replacement(Base64Symbol(ct), p.matches[e.m].p2,
                            p.matches[e.m].extra)),
        !.events = Append(@, <<"finish", p.k, e.m>>)]

\* the sequence s without its i-th element
Without(s, i) == SubSeq(s, 1, i - 1) \o SubSeq(s, i + 1, Len(s))

EncryptFinish ==
    /\ proc.pc = "await"
    /\ \E i \in 1..Len(proc.pending) :
          \E r \in {AfterEncrypt(proc, proc.pending[i],
                        Ciphertext(proc.matches[proc.pending[i].m].p1,
                                   buildKeys[proc.k].keys.key,
                                   proc.pending[i].iv),
                        Without(proc.pending, i))} :
              proc' = r
    /\ UNCHANGED <<project, embedded, buildKeys, globalHashes, registry,
                   invocations, dispatched, thrown, now, verifier, overlays>>

\* lines 837-840: the rewritten text is written over the copy
WriteFile ==
    /\ proc.pc = "match"
    /\ proc.m = Len(proc.matches)
    /\ proc' = [proc EXCEPT
          !.pc = "file",
          !.k  = @ + 1,
          !.written[proc.routerFile] = proc.modifiedContent]
    /\ UNCHANGED <<project, embedded, buildKeys, globalHashes, registry,
                   invocations, dispatched, thrown, now, verifier, overlays>>

\* lines 857-868: mapping[file] with the mask and ciphertext -> iv
MappingOf(p, keys) ==
    [n \in 1..Len(p.names) |->
        [fileKey |-> p.names[n],
         mask    |-> keys[n].keys.mask,
         entries |-> ObjectEntries(p.encryptedCalls[n])]]

BuildMapping ==
    /\ proc.pc = "file"
    /\ proc.k > Len(proc.names)
    /\ proc' = [proc EXCEPT !.pc = "done", !.mapping = MappingOf(proc, buildKeys)]
    /\ UNCHANGED <<project, embedded, buildKeys, globalHashes, registry,
                   invocations, dispatched, thrown, now, verifier, overlays>>

\* the number of the text a file of the recompiled folder holds: the
\* number of the source text while the copy is untouched, another once
\* recompileRouterFiles has written a different text over it
WrittenText(P, contents, file, content) ==
    IF content = contents[file] THEN P.src[file].text
    ELSE P.src[file].text + 8

\* computeHashesForJsFiles() on the recompiled folder as it is (lines
\* 936-951): the .js files not named Router.js, each with the hash of the
\* content read
HashesOfFolder(P, contents, written) ==
    LET kept == SelectSeq(P.files,
                    LAMBDA f : PathBasename(P, f) # RouterJsName)
    IN  [i \in 1..Len(kept) |->
            [path |-> RecompiledPath(P, kept[i]),
             hash |-> Sha256(WrittenText(P, contents, kept[i],
                                         written[kept[i]]))]]

\* a build that calls recompileRouterFiles() without awaiting it: its
\* caller goes on when the first encryption is outstanding
RecompileStarted(p) == p.pc \in {"await", "done"}

\* await recompileRouterFiles() (line 847) has resolved and the mapping is
\* built
RecompileResolved(p) == p.pc = "done"

\* updateRouterJS() (lines 888-931, 953): the three constants are written
\* into every Router.js of the project, or into a new Router.js of the
\* recompiled folder; the hashes are computed at that time
UpdateRouterJS ==
    /\ RecompileResolved(proc)
    /\ proc' = [proc EXCEPT !.pc = "updated"]
    /\ embedded' = [tree        |-> analyzeDependencies(project),
                    ivs         |-> proc.mapping,
                    precomputed |-> HashesOfFolder(project, proc.fileContents,
                                                   proc.written)]
    /\ UNCHANGED <<project, buildKeys, globalHashes, registry, invocations,
                   dispatched, thrown, now, verifier, overlays>>

NextRecompile ==
    \/ RecompileFile
    \/ EncryptStart
    \/ EncryptFinish
    \/ WriteFile
    \/ BuildMapping
    \/ UpdateRouterJS

SpecRecompile == InitRecompile /\ [][NextRecompile]_vars

(***************************************************************************)
(* Claims on the rewritten files and on the mapping                        *)
(***************************************************************************)

\* the position of base name name in names, 0 when absent
NamePosition(names, name) ==
    LET hits == {n \in 1..Len(names) : names[n] = name}
    IN  IF hits = {} THEN 0 ELSE CHOOSE n \in hits : TRUE

\* the text in which the matches from the n-th on are rewritten and nothing
\* else is changed: each call site with the ciphertext of its own entry in
\* place of the first argument, the callee and the trailing arguments as the
\* source has them
RECURSIVE OnlyFirstArguments(_, _, _, _, _)
OnlyFirstArguments(text, matches, calls, n, from) ==
    IF n > Len(matches) THEN SubSeq(text, from, Len(text))
    ELSE SubSeq(text, from, matches[n].first - 1)
         \o Replacement(calls[n].encryptedResult, matches[n].p2,
                        matches[n].extra)
         \o OnlyFirstArguments(text, matches, calls, n + 1, matches[n].last + 1)

\* the files recompileRouterFiles has written
FilesRecompiled ==
    {FindRouterFile(project, proc.names[n]) : n \in 1..(proc.k - 1)}

\* C15: a file rewritten by recompileRouterFiles is the source text with, at
\* every matched call site, the first argument replaced by the ciphertext of
\* the original literal; the callee, the trailing arguments and the text
\* outside the call sites are those of the source
C15_OnlyFirstArgumentRewritten ==
    \A f \in FilesRecompiled :
        proc.written[f] =
            OnlyFirstArguments(proc.fileContents[f],
                matchAll(proc.fileContents[f]),
                proc.encryptedCalls[NamePosition(proc.names,
                                        PathBasename(project, f))],
                1, 1)

\* the ciphertext entries of the mapping of the n-th file
CiphertextEntries(n) == proc.mapping[n].entries

\* C16: in the mapping of a file every encrypted call site has its own
\* ciphertext entry: the IVs of a file's call sites are pairwise different,
\* so are their ciphertexts, and the number of entries is the number of call
\* sites encrypted
C16_EntryPerCallSite ==
    (proc.pc = "done") =>
        \A n \in 1..Len(proc.names) :
            /\ \A i, j \in 1..Len(proc.encryptedCalls[n]) :
                  i # j =>
                    /\ proc.encryptedCalls[n][i].iv # proc.encryptedCalls[n][j].iv
                    /\ proc.encryptedCalls[n][i].ciphertext
                          # proc.encryptedCalls[n][j].ciphertext
            /\ Len(CiphertextEntries(n)) = Len(proc.encryptedCalls[n])
            /\ Len(proc.encryptedCalls[n])
                  = Len(matchAll(proc.fileContents[
                            FindRouterFile(project, proc.names[n])]))

\* two call sites of a.js with the same descriptor have their entries
C16_Witness ==
    /\ proc.pc = "done"
    /\ \E n \in 1..Len(proc.names) :
          \E i, j \in 1..Len(proc.encryptedCalls[n]) :
              /\ i # j
              /\ proc.encryptedCalls[n][i].original
                    = proc.encryptedCalls[n][j].original
              /\ Len(CiphertextEntries(n)) >= 2

\* C20: at most one encryption is outstanding, an encryption starts only
\* when every encryption started before has resolved, and the ciphertext
\* entries of a file's mapping follow the call sites of the source
C20_SequentialEncryption ==
    /\ Len(proc.pending) <= 1
    /\ \A i \in 1..Len(proc.events) :
          proc.events[i][1] = "start" =>
            /\ i % 2 = 1
            /\ i < Len(proc.events) =>
                  proc.events[i + 1]
                      = <<"finish", proc.events[i][2], proc.events[i][3]>>
    /\ (proc.pc = "done") =>
          \A n \in 1..Len(proc.names) :
              [i \in 1..Len(CiphertextEntries(n)) |-> CiphertextEntries(n)[i].ct.pt]
                  = [i \in 1..Len(matchAll(proc.fileContents[
                                      FindRouterFile(project, proc.names[n])])) |->
                        matchAll(proc.fileContents[
                            FindRouterFile(project, proc.names[n])])[i].p1]

\* two router files have been recompiled, one of them with three call sites
C20_Witness ==
    /\ proc.pc = "done"
    /\ Len(proc.names) = 2
    /\ Len(proc.events) >= 8
    /\ \E n \in 1..Len(proc.names) :
          /\ Len(CiphertextEntries(n)) = 3
          /\ CiphertextEntries(n)[1].ct.pt # CiphertextEntries(n)[3].ct.pt

\* the entries of the embedded table for one path
EntriesFor(path) ==
    {i \in 1..Len(embedded.precomputed) : embedded.precomputed[i].path = path}

\* C23: the precomputed hash table embedded into Router.js is computed only
\* after recompileRouterFiles has written every rewritten file: each entry
\* is the SHA-256 of the final content of a file of the output folder, and
\* every .js file of the output folder except Router.js has an entry
C23_HashesOfFinalContents ==
    proc.pc = "updated"
    => /\ proc.k > Len(proc.names)
       /\ proc.pending = <<>>
       /\ \A n \in 1..Len(proc.names) :
             FindRouterFile(project, proc.names[n]) \in FilesRecompiled
       /\ \A f \in FilesRecompiled :
             matchAll(proc.fileContents[f]) # <<>>
             => proc.written[f] # proc.fileContents[f]
       /\ \A f \in SeqToSet(project.files) :
             IF PathBasename(project, f) = RouterJsName
             THEN EntriesFor(RecompiledPath(project, f)) = {}
             ELSE \E i \in EntriesFor(RecompiledPath(project, f)) :
                     /\ EntriesFor(RecompiledPath(project, f)) = {i}
                     /\ embedded.precomputed[i].hash
                           = Sha256(WrittenText(project, proc.fileContents, f,
                                                proc.written[f]))
       /\ \A i \in 1..Len(embedded.precomputed) :
             \E f \in SeqToSet(project.files) :
                 embedded.precomputed[i].path = RecompiledPath(project, f)
       /\ embedded.precomputed = computeHashesForJsFiles(project)

\* a build of a project with a Router.js and two rewritten files, one of
\* them with two call sites, has embedded the table
C23_Witness ==
    /\ proc.pc = "updated"
    /\ FileRouter(project.sep) \in SeqToSet(project.files)
    /\ Len(proc.names) = 2
    /\ \E n \in 1..Len(proc.names) : Len(proc.encryptedCalls[n]) >= 2
    /\ Len(embedded.precomputed) = 4

====
